---- MODULE Spec2Model ----
(***************************************************************************)
(* JsonDB (the PHP engine shipped as PHP_SOURCE_CODE): one JSON file per   *)
(* collection, whole-file read / compute / rewrite, and a MongoDB-like     *)
(* predicate language.                                                     *)
(*                                                                         *)
(* Strings are sequences of one-character strings, so that sanitising,     *)
(* PHP's empty(), numeric-string tests and byte-wise ordering are computed *)
(* the way PHP computes them.  A document is a function from field names   *)
(* to values; the order of the keys inside one document is not modelled.   *)
(* Values are null, integers, whole-valued floats and strings.             *)
(***************************************************************************)
EXTENDS Integers, Sequences, FiniteSets, TLC

VARIABLES files, clock, php8, last, procs,
          localStorage, state, simOut,
          selectedCollection, collectionDocs, pending

storeVars == <<files, clock, php8, last>>
simVars == <<localStorage, state, simOut>>
dashVars == <<selectedCollection, collectionDocs, pending>>
vars == <<files, clock, php8, last, procs, simVars, dashVars>>

----------------------------------------------------------------------------
(* Bounds of the model.                                                    *)

\* documents one collection may hold before insert is no longer offered
MaxDocs == 3
MaxIds == 1
MaxTime == 1
\* how many identifiers uniqid() hands out
MaxGen == 2

----------------------------------------------------------------------------
(* Strings.                                                                *)

Digits == {"0", "1", "2", "3", "4", "5", "6", "7", "8", "9"}
Lower == {"a", "b", "c", "d", "e", "f", "g", "h", "i", "j", "k", "l", "m",
          "n", "o", "p", "q", "r", "s", "t", "u", "v", "w", "x", "y", "z"}
Upper == {"A", "B", "C", "D", "E", "F", "G", "H", "I", "J", "K", "L", "M",
          "N", "O", "P", "Q", "R", "S", "T", "U", "V", "W", "X", "Y", "Z"}

\* the characters the model's strings are made of, in byte order
Alphabet == <<" ", "!", "(", ",", "-", ".", "/", "0", "1", "2", "3", "4", "5", "6", "7", "8", "9",
              "@", "A", "B", "C", "D", "E", "F", "G", "H", "I", "J", "K", "L", "M",
              "N", "O", "P", "Q", "R", "S", "T", "U", "V", "W", "X", "Y", "Z", "[", "_",
              "a", "b", "c", "d", "e", "f", "g", "h", "i", "j", "k", "l", "m",
              "n", "o", "p", "q", "r", "s", "t", "u", "v", "w", "x", "y", "z">>

\* the place of each character in that order
RankTable ==
    [c \in {Alphabet[i] : i \in 1..Len(Alphabet)} |->
        CHOOSE i \in 1..Len(Alphabet) : Alphabet[i] = c]

Rank(c) == RankTable[c]

\* strcmp: -1, 0 or 1
RECURSIVE StrCmp(_, _)
StrCmp(a, b) ==
    IF a = <<>> /\ b = <<>> THEN 0
    ELSE IF a = <<>> THEN -1
    ELSE IF b = <<>> THEN 1
    ELSE IF Rank(Head(a)) < Rank(Head(b)) THEN -1
    ELSE IF Rank(Head(a)) > Rank(Head(b)) THEN 1
    ELSE StrCmp(Tail(a), Tail(b))

\* a non-empty run of decimal digits (signs, blanks, fractions and exponents
\* are outside the model's strings)
IsNumericStr(s) == s # <<>> /\ \A i \in 1..Len(s) : s[i] \in Digits

DigitVal(c) == Rank(c) - Rank("0")

RECURSIVE StrToNum(_)
StrToNum(s) ==
    IF s = <<>> THEN 0
    ELSE StrToNum(SubSeq(s, 1, Len(s) - 1)) * 10 + DigitVal(s[Len(s)])

DigitChar(d) == Alphabet[Rank("0") + d]

RECURSIVE NatToStr(_)
NatToStr(n) ==
    IF n < 10 THEN <<DigitChar(n)>>
    ELSE Append(NatToStr(n \div 10), DigitChar(n % 10))

IntToStr(n) == IF n < 0 THEN <<"-">> \o NatToStr(0 - n) ELSE NatToStr(n)

\* PHP's empty() on a string: "" and "0"
EmptyStr(s) == s = <<>> \/ s = <<"0">>

----------------------------------------------------------------------------
(* Values.                                                                 *)

VNull == [t |-> "null", n |-> 0, s |-> <<>>]
VInt(i) == [t |-> "int", n |-> i, s |-> <<>>]
\* the float i.0
VFloat(i) == [t |-> "float", n |-> i, s |-> <<>>]
VStr(x) == [t |-> "str", n |-> 0, s |-> x]

IsNum(v) == v.t \in {"int", "float"}

\* $a === $b
Identical(a, b) == a = b

\* (bool)$v
ToBool(v) ==
    CASE v.t = "null" -> FALSE
      [] v.t \in {"int", "float"} -> v.n # 0
      [] OTHER -> ~EmptyStr(v.s)

Sign(i) == IF i < 0 THEN -1 ELSE IF i > 0 THEN 1 ELSE 0

BoolCmp(a, b) == IF a = b THEN 0 ELSE IF b THEN -1 ELSE 1

\* PHP's loose comparison $a <=> $b of two scalars: -1, 0 or 1.  A number
\* against a non-numeric string is compared as numbers before PHP 8 (the
\* string counts as 0) and as strings from PHP 8 on.
Compare(a, b, p8) ==
    CASE a.t = "null" /\ b.t = "null" -> 0
      [] a.t = "null" /\ b.t = "str" -> StrCmp(<<>>, b.s)
      [] a.t = "str" /\ b.t = "null" -> StrCmp(a.s, <<>>)
      [] a.t = "null" \/ b.t = "null" -> BoolCmp(ToBool(a), ToBool(b))
      [] IsNum(a) /\ IsNum(b) -> Sign(a.n - b.n)
      [] a.t = "str" /\ b.t = "str" ->
            IF IsNumericStr(a.s) /\ IsNumericStr(b.s)
            THEN Sign(StrToNum(a.s) - StrToNum(b.s))
            ELSE StrCmp(a.s, b.s)
      [] IsNum(a) /\ b.t = "str" ->
            IF IsNumericStr(b.s) THEN Sign(a.n - StrToNum(b.s))
            ELSE IF p8 THEN StrCmp(IntToStr(a.n), b.s)
            ELSE Sign(a.n)
      [] OTHER ->
            IF IsNumericStr(a.s) THEN Sign(StrToNum(a.s) - b.n)
            ELSE IF p8 THEN StrCmp(a.s, IntToStr(b.n))
            ELSE Sign(0 - b.n)

\* strtolower of one character
LowerOf(c) == IF c \in Upper THEN Alphabet[Rank(c) - Rank("A") + Rank("a")] ELSE c

StrLower(s) == [i \in 1..Len(s) |-> LowerOf(s[i])]

\* strpos($hay, $needle) !== false
Contains(hay, needle) ==
    \E i \in 0..(Len(hay) - Len(needle)) : SubSeq(hay, i + 1, i + Len(needle)) = needle

\* (string)$v
ToStr(v) ==
    CASE v.t = "null" -> <<>>
      [] v.t \in {"int", "float"} -> IntToStr(v.n)
      [] OTHER -> v.s

----------------------------------------------------------------------------
(* Documents and their JSON form.                                          *)

NoDoc == <<>>

\* isset($doc[$key])
IsSet(doc, key) == key \in DOMAIN doc /\ doc[key].t # "null"

\* $doc with $doc[$key] = $v
SetField(doc, key, v) ==
    [k \in DOMAIN doc \cup {key} |-> IF k = key THEN v ELSE doc[k]]

\* $doc after unset($doc[$key])
UnsetField(doc, key) == [k \in DOMAIN doc \ {key} |-> doc[k]]

\* json_encode of one value, without JSON_PRESERVE_ZERO_FRACTION: the float
\* 30.0 is written as the number 30
EncodeVal(v) ==
    CASE v.t = "null" -> [j |-> "null", n |-> 0, s |-> <<>>]
      [] v.t \in {"int", "float"} -> [j |-> "num", n |-> v.n, s |-> <<>>]
      [] OTHER -> [j |-> "str", n |-> 0, s |-> v.s]

\* json_decode of one value: a number without fraction or exponent is an int
DecodeVal(j) ==
    CASE j.j = "null" -> VNull
      [] j.j = "num" -> VInt(j.n)
      [] OTHER -> VStr(j.s)

EncodeDoc(doc) == [k \in DOMAIN doc |-> EncodeVal(doc[k])]
DecodeDoc(jd) == [k \in DOMAIN jd |-> DecodeVal(jd[k])]

\* json_encode($data, JSON_PRETTY_PRINT) of a list of documents
JsonEncode(data) == [kind |-> "list", items |-> [i \in 1..Len(data) |-> EncodeDoc(data[i])]]

\* json_decode($content, true)
JsonDecode(json) == [i \in 1..Len(json.items) |-> DecodeDoc(json.items[i])]

\* is_array(json_decode($content, true))
DecodesToArray(json) == json.kind \in {"list", "object"}

----------------------------------------------------------------------------
(* The file system under dbPath.                                           *)

NoFile == [exists |-> FALSE, json |-> [kind |-> "none", items |-> <<>>]]
FileOf(json) == [exists |-> TRUE, json |-> json]

IsWordChar(c) == c \in Lower \cup Upper \cup Digits \cup {"_"}

\* a sanitiser whose character class lets '-' through as well
SanitizeKeepsDash(name) == SelectSeq(name, LAMBDA c : IsWordChar(c) \/ c = "-")

\* preg_replace('/[^a-z0-9_]/i', '', $collection)
Sanitize(name) == SelectSeq(name, IsWordChar)

\* a getFilePath that does not look at what sanitising left
GetFilePathUnchecked(collection) == [ok |-> TRUE, file |-> Sanitize(collection)]

\* a getFilePath that gives every collection the file of the first one
GetFilePathShared(collection) ==
    [ok |-> ~EmptyStr(Sanitize(collection)), file |-> <<"u">>]

\* getFilePath: throws when the sanitised name is empty() in PHP's sense
GetFilePath(collection) ==
    [ok |-> ~EmptyStr(Sanitize(collection)), file |-> Sanitize(collection)]

\* $this->dbPath, and the extension of a collection's file
DbPath == <<"/", "d", "b", "/">>
Extension == <<".", "j", "s", "o", "n">>

\* $this->dbPath . $safeName . '.json'
PathOf(file) == DbPath \o file \o Extension

\* glob($this->dbPath . '*.json'): the paths of the files there are, sorted
Glob(fs) ==
    LET paths == {PathOf(f) : f \in {g \in DOMAIN fs : fs[g].exists}}
    IN [k \in 1..Cardinality(paths) |->
           CHOOSE p \in paths : Cardinality({q \in paths : StrCmp(q, p) < 0}) = k - 1]

\* a basename that is not given the suffix to remove
BasenameKeepsSuffix(path, suffix) ==
    LET slashes == {i \in 1..Len(path) : path[i] = "/"}
    IN SubSeq(path, 1 + CHOOSE i \in slashes : \A j \in slashes : j <= i, Len(path))

\* basename($f, '.json'): what follows the last '/', without the suffix
Basename(path, suffix) ==
    LET slashes == {i \in 1..Len(path) : path[i] = "/"}
        start == IF slashes = {} THEN 1
                 ELSE 1 + CHOOSE i \in slashes : \A j \in slashes : j <= i
        base == SubSeq(path, start, Len(path))
        cut == Len(base) - Len(suffix)
    IN IF cut > 0 /\ SubSeq(base, cut + 1, Len(base)) = suffix
       THEN SubSeq(base, 1, cut)
       ELSE base

\* array_values(array_unique($names)): the first occurrence of each name
ArrayUnique(names) ==
    LET firsts == {i \in 1..Len(names) : \A j \in 1..(i - 1) : names[j] # names[i]}
    IN [k \in 1..Cardinality(firsts) |->
           names[CHOOSE i \in firsts : Cardinality({j \in firsts : j < i}) = k - 1]]

\* listCollections: glob, basename of each path, array_unique
ListNames(fs) ==
    LET found == Glob(fs)
    IN ArrayUnique([i \in 1..Len(found) |-> Basename(found[i], Extension)])

\* the names listCollections returns
ListCollections(fs) ==
    LET names == ListNames(fs)
    IN {names[i] : i \in 1..Len(names)}

\* a store that keeps the collections it loaded when it was constructed,
\* when there were none
ReadFileLoadedAtStart(fs, file) == <<>>

\* readCollection, given the file's path
ReadFile(fs, file) ==
    IF ~fs[file].exists THEN <<>>
    ELSE IF fs[file].json.kind = "unreadable" THEN <<>>
    ELSE IF DecodesToArray(fs[file].json) THEN JsonDecode(fs[file].json)
    ELSE <<>>

\* writeCollection, given the file's path, when file_put_contents succeeds
WriteFile(fs, file, data) == [fs EXCEPT ![file] = FileOf(JsonEncode(data))]

\* what file_put_contents leaves when it has opened the file, which empties
\* it, and then cannot write all of the text (a full disk, a quota): a strict
\* prefix of the JSON text, which is not JSON
Truncated == [kind |-> "invalid", items |-> <<>>]

\* what the file system answers to file_put_contents: the text is written;
\* the file cannot be opened and stays as it is; or the text is cut short
WriteOutcomes == {"ok", "denied", "partial"}

\* the files after a writeCollection that throws, given the file's path
FailedWrite(fs, file, io) ==
    IF io = "partial" THEN [fs EXCEPT ![file] = FileOf(Truncated)] ELSE fs

\* whether the array readCollection returns has string keys: json_decode of
\* a JSON object that has members
ReadKeyed(fs, file) ==
    fs[file].exists /\ fs[file].json.kind = "object" /\ fs[file].json.items # <<>>

\* json_encode of an array: one whose keys are 0..n-1 becomes a JSON array, one
\* with other keys a JSON object
JsonEncodeArray(data, keyed) ==
    [kind |-> IF keyed THEN "object" ELSE "list",
     items |-> [i \in 1..Len(data) |-> EncodeDoc(data[i])]]

\* writeCollection of the array readCollection returned, after changes that
\* keep its keys ($data[] = ..., $data[$idx][$k] = ...)
WriteBack(fs, file, data) ==
    [fs EXCEPT ![file] = FileOf(JsonEncodeArray(data, ReadKeyed(fs, file)))]

----------------------------------------------------------------------------
(* Query predicates.  A query is the sequence of its (key, criteria)       *)
(* pairs; a criteria is a literal value or a mapping, the sequence of its  *)
(* (operator, operand) pairs; an operand is a scalar or a list of scalars. *)

Scalar(v) == [isList |-> FALSE, v |-> v, items |-> <<>>]
ListOf(items) == [isList |-> TRUE, v |-> VNull, items |-> items]

Lit(v) == [isOps |-> FALSE, v |-> v, ops |-> <<>>]
Ops(ops) == [isOps |-> TRUE, v |-> VNull, ops |-> ops]
Op(op, arg) == [op |-> op, arg |-> arg]
Clause(key, crit) == [key |-> key, crit |-> crit]

\* $value <= $expected; against an array a scalar is always the smaller one
\* and null is compared as a boolean
LooseLe(value, arg, p8) ==
    IF arg.isList THEN TRUE ELSE Compare(value, arg.v, p8) <= 0

\* $value >= $expected
LooseGe(value, arg, p8) ==
    IF arg.isList THEN value.t = "null" /\ arg.items = <<>>
    ELSE Compare(value, arg.v, p8) >= 0

\* in_array($value, $expected): loose ==
InArray(value, items, p8) ==
    \E i \in 1..Len(items) : Compare(value, items[i], p8) = 0

PregModifiers == {"i", "m", "s", "x", "u", "A", "D", "S", "U", "X", "J"}

\* the index of the first closing delimiter of the pattern, 0 when none; a
\* pattern that opens with a bracket closes with the other bracket, which the
\* model's strings do not have
EndDelimiter(pattern) ==
    LET at == {j \in 2..Len(pattern) : pattern[j] = pattern[1]}
    IN IF pattern[1] \in {"(", "["} \/ at = {} THEN 0
       ELSE CHOOSE j \in at : \A k \in at : j <= k

\* one pattern character against one subject character
CharMatches(pc, sc, fold) ==
    \/ pc = "."
    \/ pc = sc
    \/ fold /\ LowerOf(pc) = LowerOf(sc)

\* whether preg_match() can compile the pattern.  The pattern needs
\* delimiters: one that is empty, starts with a letter or a digit, has no
\* closing delimiter or has an unknown modifier does not compile, nor does
\* one whose body opens a group or a class that nothing closes.  Otherwise
\* the body is literal characters and '.'.
PregCompiles(arg) ==
    /\ ~arg.isList
    /\ LET pattern == ToStr(arg.v)
           e == EndDelimiter(pattern)
       IN /\ pattern # <<>>
          /\ pattern[1] \notin Lower \cup Upper \cup Digits
          /\ e # 0
          /\ \A j \in (e + 1)..Len(pattern) : pattern[j] \in PregModifiers
          /\ \A k \in 2..(e - 1) : pattern[k] \notin {"(", "["}

\* @preg_match($expected, $subject) is 1; it is false, with a warning that
\* the @ keeps back, when the pattern does not compile
PregMatch(arg, subject) ==
    /\ PregCompiles(arg)
    /\ LET pattern == ToStr(arg.v)
           e == EndDelimiter(pattern)
           body == SubSeq(pattern, 2, e - 1)
           fold == \E j \in (e + 1)..Len(pattern) : pattern[j] = "i"
       IN \E i \in 0..(Len(subject) - Len(body)) :
             \A k \in 1..Len(body) : CharMatches(body[k], subject[i + k], fold)

\* preg_match() given an array as the pattern: a warning and false before
\* PHP 8, a TypeError from PHP 8 on, which the @ does not keep back
PregThrows(arg, p8) == arg.isList /\ p8

\* the branch of match()'s if-chain an operator key takes.  The keys are
\* compared with ==; the key "0" of the JSON object is the integer 0 in the
\* PHP array, and before PHP 8 the integer 0 equals every non-numeric
\* string, so it takes the first branch
OpBranch(op, p8) == IF op = "0" /\ ~p8 THEN "$eq" ELSE op

\* a $regex test that fails the clause only when preg_match() returns 0
ClauseFailsOnZeroOnly(value, op, arg, p8) ==
    CASE OpBranch(op, p8) = "$eq" -> arg.isList \/ ~Identical(value, arg.v)
      [] OpBranch(op, p8) = "$ne" -> ~arg.isList /\ Identical(value, arg.v)
      [] OpBranch(op, p8) = "$gt" -> LooseLe(value, arg, p8)
      [] OpBranch(op, p8) = "$lt" -> LooseGe(value, arg, p8)
      [] OpBranch(op, p8) = "$regex" -> PregCompiles(arg) /\ ~PregMatch(arg, ToStr(value))
      [] OpBranch(op, p8) = "$in" -> ~arg.isList \/ ~InArray(value, arg.items, p8)
      [] OTHER -> FALSE

\* one (operator, operand) pair of match()'s inner loop: TRUE when the pair
\* makes match() return false
ClauseFails(value, op, arg, p8) ==
    CASE OpBranch(op, p8) = "$eq" -> arg.isList \/ ~Identical(value, arg.v)
      [] OpBranch(op, p8) = "$ne" -> ~arg.isList /\ Identical(value, arg.v)
      [] OpBranch(op, p8) = "$gt" -> LooseLe(value, arg, p8)
      [] OpBranch(op, p8) = "$lt" -> LooseGe(value, arg, p8)
      [] OpBranch(op, p8) = "$regex" -> ~PregMatch(arg, ToStr(value))
      [] OpBranch(op, p8) = "$in" -> ~arg.isList \/ ~InArray(value, arg.items, p8)
      [] OTHER -> FALSE

\* an inner loop that leaves after its first pair
OpsHoldFirstOnly(value, ops, i, p8) ==
    IF i > Len(ops) THEN TRUE
    ELSE ~ClauseFails(value, ops[i].op, ops[i].arg, p8)

\* foreach ($criteria as $op => $expected), from pair i on
RECURSIVE OpsHold(_, _, _, _)
OpsHold(value, ops, i, p8) ==
    IF i > Len(ops) THEN TRUE
    ELSE IF ClauseFails(value, ops[i].op, ops[i].arg, p8) THEN FALSE
    ELSE OpsHold(value, ops, i + 1, p8)

\* isset($doc[$key]) ? $doc[$key] : null
FieldOf(doc, key) == IF IsSet(doc, key) THEN doc[key] ELSE VNull

\* foreach ($query as $key => $criteria), from pair i on
RECURSIVE MatchFrom(_, _, _, _)
MatchFrom(doc, query, i, p8) ==
    IF i > Len(query) THEN TRUE
    ELSE LET value == FieldOf(doc, query[i].key)
             crit == query[i].crit
         IN IF crit.isOps
            THEN IF OpsHold(value, crit.ops, 1, p8)
                 THEN MatchFrom(doc, query, i + 1, p8)
                 ELSE FALSE
            ELSE IF ~Identical(value, crit.v)
                 THEN FALSE
                 ELSE MatchFrom(doc, query, i + 1, p8)

Match(doc, query, p8) == MatchFrom(doc, query, 1, p8)

\* whether the inner loop, from pair i on, reaches a preg_match() that throws
RECURSIVE OpsThrow(_, _, _, _)
OpsThrow(value, ops, i, p8) ==
    IF i > Len(ops) THEN FALSE
    ELSE IF OpBranch(ops[i].op, p8) = "$regex" /\ PregThrows(ops[i].arg, p8) THEN TRUE
    ELSE IF ClauseFails(value, ops[i].op, ops[i].arg, p8) THEN FALSE
    ELSE OpsThrow(value, ops, i + 1, p8)

\* whether match(), from pair i of the query on, ends in that throw instead
\* of returning
RECURSIVE MatchThrowsFrom(_, _, _, _)
MatchThrowsFrom(doc, query, i, p8) ==
    IF i > Len(query) THEN FALSE
    ELSE LET value == FieldOf(doc, query[i].key)
             crit == query[i].crit
         IN IF crit.isOps
            THEN IF OpsThrow(value, crit.ops, 1, p8) THEN TRUE
                 ELSE IF OpsHold(value, crit.ops, 1, p8)
                      THEN MatchThrowsFrom(doc, query, i + 1, p8)
                      ELSE FALSE
            ELSE IF ~Identical(value, crit.v)
                 THEN FALSE
                 ELSE MatchThrowsFrom(doc, query, i + 1, p8)

MatchThrows(doc, query, p8) == p8 /\ MatchThrowsFrom(doc, query, 1, p8)

\* the loops of find(), update() and delete() call match() on every document
\* in turn: one call that throws ends the loop, and the operation, before
\* anything is written.  The TypeError is not an Exception, so api.php does
\* not catch it: the request ends without a success response.
LoopThrows(data, query, p8) ==
    p8 /\ \E i \in 1..Len(data) : MatchThrows(data[i], query, p8)

\* the documents of data that match, newest first
RECURSIVE SelectMatchingReversed(_, _, _)
SelectMatchingReversed(data, query, p8) ==
    IF data = <<>> THEN <<>>
    ELSE IF Match(Head(data), query, p8)
         THEN SelectMatchingReversed(Tail(data), query, p8) \o <<Head(data)>>
         ELSE SelectMatchingReversed(Tail(data), query, p8)

\* the documents of data that match, in data's order
RECURSIVE SelectMatching(_, _, _)
SelectMatching(data, query, p8) ==
    IF data = <<>> THEN <<>>
    ELSE IF Match(Head(data), query, p8)
         THEN <<Head(data)>> \o SelectMatching(Tail(data), query, p8)
         ELSE SelectMatching(Tail(data), query, p8)

----------------------------------------------------------------------------
(* The engine's operations.  Each yields the outcome of one call: whether  *)
(* it returned (ok) or threw, the files afterwards, and what it returned.  *)
(* io is what the file system answers to the call's file_put_contents      *)
(* (WriteOutcomes) or unlink (IoOutcomes).                                 *)

\* what the file system answers to unlink: done, or refused
IoOutcomes == {"ok", "denied"}

Outcome(ok, fs, doc, docs, count, flag) ==
    [ok |-> ok, fs |-> fs, doc |-> doc, docs |-> docs, count |-> count, flag |-> flag]

Thrown(fs) == Outcome(FALSE, fs, NoDoc, <<>>, 0, FALSE)

\* a generator that hands out the same identifier every time
UniqIdRepeats(clk) == VStr(<<"d", "o", "c", "_">>)

\* uniqid('doc_', true): a string no earlier call has returned
UniqId(clk) == VStr(<<"d", "o", "c", "_">> \o NatToStr(clk))

\* a createCollection that writes the empty array whether or not the file exists
CreateCollectionOverwrites(fs, collection, io) ==
    LET path == GetFilePath(collection)
    IN IF EmptyStr(collection) THEN Thrown(fs)
       ELSE IF ~path.ok THEN Thrown(fs)
       ELSE IF io = "ok"
            THEN Outcome(TRUE, WriteFile(fs, path.file, <<>>), NoDoc, <<>>, 0, TRUE)
            ELSE Thrown(FailedWrite(fs, path.file, io))

CreateCollection(fs, collection, io) ==
    LET path == GetFilePath(collection)
    IN IF EmptyStr(collection) THEN Thrown(fs)
       ELSE IF ~path.ok THEN Thrown(fs)
       ELSE IF ~fs[path.file].exists
            THEN IF io = "ok"
                 THEN Outcome(TRUE, WriteFile(fs, path.file, <<>>), NoDoc, <<>>, 0, TRUE)
                 ELSE Thrown(FailedWrite(fs, path.file, io))
            ELSE Outcome(TRUE, fs, NoDoc, <<>>, 0, TRUE)

\* an insert that always generates the _id
WithIdAlways(document, clk) == SetField(document, "_id", UniqId(clk))

\* the document insert() stores and returns
WithId(document, clk) ==
    IF ~IsSet(document, "_id") THEN SetField(document, "_id", UniqId(clk)) ELSE document

\* a write step that appends to what the file holds at the time of the write
InsertWriteMerging(fs, file, data, stored) ==
    WriteFile(fs, file, Append(ReadFile(fs, file), stored))

\* $data[] = $document; writeCollection($collection, $data)
InsertWrite(fs, file, data, stored) == WriteBack(fs, file, Append(data, stored))

Insert(fs, collection, document, clk, io) ==
    LET path == GetFilePath(collection)
    IN IF ~path.ok THEN Thrown(fs)
       ELSE LET data == ReadFile(fs, path.file)
                stored == WithId(document, clk)
            IN IF io = "ok"
               THEN Outcome(TRUE, InsertWrite(fs, path.file, data, stored),
                            stored, <<>>, 0, FALSE)
               ELSE Thrown(FailedWrite(fs, path.file, io))

Find(fs, collection, query, p8) ==
    LET path == GetFilePath(collection)
    IN IF ~path.ok THEN Thrown(fs)
       ELSE LET data == ReadFile(fs, path.file)
            IN IF query = <<>> THEN Outcome(TRUE, fs, NoDoc, data, 0, FALSE)
               ELSE IF LoopThrows(data, query, p8) THEN Thrown(fs)
               ELSE Outcome(TRUE, fs, NoDoc, SelectMatching(data, query, p8), 0, FALSE)

\* an update document: $set and $unset, each present or not
UpdateOf(hasSet, set, hasUnset, unset) ==
    [hasSet |-> hasSet, set |-> set, hasUnset |-> hasUnset, unset |-> unset]

\* foreach ($update['$set'] as $k => $v) $data[$idx][$k] = $v, from pair i on
RECURSIVE ApplySet(_, _, _)
ApplySet(doc, set, i) ==
    IF i > Len(set) THEN doc
    ELSE ApplySet(SetField(doc, set[i].k, set[i].v), set, i + 1)

\* foreach ($update['$unset'] as $k => $v) unset($data[$idx][$k]), from key i on
RECURSIVE ApplyUnset(_, _, _)
ApplyUnset(doc, unset, i) ==
    IF i > Len(unset) THEN doc
    ELSE ApplyUnset(UnsetField(doc, unset[i]), unset, i + 1)

\* the body of update()'s loop for one matching document
ApplyUpdate(doc, upd) ==
    LET afterSet == IF upd.hasSet THEN ApplySet(doc, upd.set, 1) ELSE doc
    IN IF upd.hasUnset THEN ApplyUnset(afterSet, upd.unset, 1) ELSE afterSet

\* an update loop that does not test match()
UpdateDataAll(data, query, upd, p8) ==
    [i \in 1..Len(data) |-> ApplyUpdate(data[i], upd)]

\* update()'s loop: the data afterwards
UpdateData(data, query, upd, p8) ==
    [i \in 1..Len(data) |->
        IF Match(data[i], query, p8) THEN ApplyUpdate(data[i], upd) ELSE data[i]]

\* update()'s $modifiedCount
ModifiedCount(data, query, p8) ==
    Cardinality({i \in 1..Len(data) : Match(data[i], query, p8)})

\* an update that writes the collection back whether or not it changed one
UpdateAlwaysWrites(fs, collection, query, upd, p8, io) ==
    LET path == GetFilePath(collection)
    IN IF ~path.ok THEN Thrown(fs)
       ELSE LET data == ReadFile(fs, path.file)
                modifiedCount == ModifiedCount(data, query, p8)
            IN IF LoopThrows(data, query, p8) THEN Thrown(fs)
               ELSE IF io = "ok"
               THEN Outcome(TRUE, WriteBack(fs, path.file, UpdateData(data, query, upd, p8)),
                            NoDoc, <<>>, modifiedCount, FALSE)
               ELSE Thrown(FailedWrite(fs, path.file, io))

Update(fs, collection, query, upd, p8, io) ==
    LET path == GetFilePath(collection)
    IN IF ~path.ok THEN Thrown(fs)
       ELSE LET data == ReadFile(fs, path.file)
                modifiedCount == ModifiedCount(data, query, p8)
            IN IF LoopThrows(data, query, p8) THEN Thrown(fs)
               ELSE IF modifiedCount > 0
               THEN IF io = "ok"
                    THEN Outcome(TRUE, WriteBack(fs, path.file, UpdateData(data, query, upd, p8)),
                                 NoDoc, <<>>, modifiedCount, FALSE)
                    ELSE Thrown(FailedWrite(fs, path.file, io))
               ELSE Outcome(TRUE, fs, NoDoc, <<>>, modifiedCount, FALSE)

\* a filter that stops testing after the first document it leaves out
RECURSIVE KeepAfterFirstMatch(_, _, _)
KeepAfterFirstMatch(data, query, p8) ==
    IF data = <<>> THEN <<>>
    ELSE IF ~Match(Head(data), query, p8)
         THEN <<Head(data)>> \o KeepAfterFirstMatch(Tail(data), query, p8)
         ELSE Tail(data)

\* delete()'s $newData: the documents that do not match, in data's order
RECURSIVE KeepUnmatched(_, _, _)
KeepUnmatched(data, query, p8) ==
    IF data = <<>> THEN <<>>
    ELSE IF ~Match(Head(data), query, p8)
         THEN <<Head(data)>> \o KeepUnmatched(Tail(data), query, p8)
         ELSE KeepUnmatched(Tail(data), query, p8)

\* a delete that reports the number of documents left
DeleteCountsRemaining(fs, collection, query, p8, io) ==
    LET path == GetFilePath(collection)
    IN IF ~path.ok THEN Thrown(fs)
       ELSE LET data == ReadFile(fs, path.file)
                newData == KeepUnmatched(data, query, p8)
            IN IF LoopThrows(data, query, p8) THEN Thrown(fs)
               ELSE IF Len(data) - Len(newData) > 0
               THEN IF io = "ok"
                    THEN Outcome(TRUE, WriteFile(fs, path.file, newData),
                                 NoDoc, <<>>, Len(newData), FALSE)
                    ELSE Thrown(FailedWrite(fs, path.file, io))
               ELSE Outcome(TRUE, fs, NoDoc, <<>>, Len(newData), FALSE)

Delete(fs, collection, query, p8, io) ==
    LET path == GetFilePath(collection)
    IN IF ~path.ok THEN Thrown(fs)
       ELSE LET data == ReadFile(fs, path.file)
                beforeCount == Len(data)
                newData == KeepUnmatched(data, query, p8)
                deletedCount == beforeCount - Len(newData)
            IN IF LoopThrows(data, query, p8) THEN Thrown(fs)
               ELSE IF deletedCount > 0
               THEN IF io = "ok"
                    THEN Outcome(TRUE, WriteFile(fs, path.file, newData),
                                 NoDoc, <<>>, deletedCount, FALSE)
                    ELSE Thrown(FailedWrite(fs, path.file, io))
               ELSE Outcome(TRUE, fs, NoDoc, <<>>, deletedCount, FALSE)

\* a drop that reports the removal without making it
DropKeepsFile(fs, collection, io) ==
    LET path == GetFilePath(collection)
    IN IF ~path.ok THEN Thrown(fs)
       ELSE IF fs[path.file].exists
            THEN IF io = "ok"
                 THEN Outcome(TRUE, fs, NoDoc, <<>>, 0, TRUE)
                 ELSE Thrown(fs)
            ELSE Outcome(TRUE, fs, NoDoc, <<>>, 0, FALSE)

\* a drop that empties the file instead of removing it
DropTruncates(fs, collection, io) ==
    LET path == GetFilePath(collection)
    IN IF ~path.ok THEN Thrown(fs)
       ELSE IF fs[path.file].exists
            THEN IF io = "ok"
                 THEN Outcome(TRUE, WriteFile(fs, path.file, <<>>), NoDoc, <<>>, 0, TRUE)
                 ELSE Thrown(fs)
            ELSE Outcome(TRUE, fs, NoDoc, <<>>, 0, FALSE)

Drop(fs, collection, io) ==
    LET path == GetFilePath(collection)
    IN IF ~path.ok THEN Thrown(fs)
       ELSE IF fs[path.file].exists
            THEN IF io = "ok"
                 THEN Outcome(TRUE, [fs EXCEPT ![path.file] = NoFile], NoDoc, <<>>, 0, TRUE)
                 ELSE Thrown(fs)
            ELSE Outcome(TRUE, fs, NoDoc, <<>>, 0, FALSE)

----------------------------------------------------------------------------
(* The calls the model makes: one client, which waits for the response of  *)
(* a call before it makes the next one.  last is that response on its way. *)

\* requested collection names: "u", "u-" (sanitised to "u"), "v", "-", "0", ""
Names == {<<"u">>, <<"u", "-">>, <<"v">>, <<"-">>, <<"0">>, <<>>}

\* the names documents are written under and searched by
DataNames == {<<"u">>, <<"u", "-">>, <<"-">>}

\* the files the requested names can address
FileNames == {Sanitize(n) : n \in {m \in Names : GetFilePath(m).ok}}

KeyK == VStr(<<"k">>)

DocAge1 == [f \in {"age"} |-> VInt(1)]
DocAge2X == [f \in {"age", "name"} |-> IF f = "age" THEN VInt(2) ELSE VStr(<<"x">>)]
DocFloat == [f \in {"age"} |-> VFloat(2)]
DocKeyed == [f \in {"_id", "age"} |-> IF f = "_id" THEN KeyK ELSE VInt(1)]

\* documents handed to insert without an _id, and with one
PlainDocs == {DocAge1, DocAge2X, DocFloat}
KeyedDocs == {DocKeyed}
InsertDocs == PlainDocs \cup KeyedDocs

QAll == <<>>
QAge(i) == <<Clause("age", Lit(VInt(i)))>>
QNameX == <<Clause("name", Lit(VStr(<<"x">>)))>>
QIdK == <<Clause("_id", Lit(KeyK))>>
QAgeGt1 == <<Clause("age", Ops(<<Op("$gt", Scalar(VInt(1)))>>))>>

Queries == {QAll, QAge(1), QNameX, QIdK, QAgeGt1}
WriteQueries == {QAll, QNameX}

SetPair(k, v) == [k |-> k, v |-> v]
NoUpdate == UpdateOf(FALSE, <<>>, FALSE, <<>>)
SetAge1 == UpdateOf(TRUE, <<SetPair("age", VInt(1))>>, FALSE, <<>>)
SetIdK == UpdateOf(TRUE, <<SetPair("_id", KeyK)>>, FALSE, <<>>)

Updates == {SetAge1}

\* the record of the last call: its arguments and what it returned
Call(op, name, doc, query, upd, io, out) ==
    [op |-> op, name |-> name, doc |-> doc, query |-> query, upd |-> upd, io |-> io,
     ok |-> out.ok, rdoc |-> out.doc, rdocs |-> out.docs, rcount |-> out.count,
     rflag |-> out.flag, rnames |-> <<>>]

NoCall == Call("none", <<>>, NoDoc, <<>>, NoUpdate, "ok", Thrown(<<>>))

Procs == {1, 2}
Idle == [pc |-> "idle", name |-> <<>>, doc |-> NoDoc, data |-> <<>>, stored |-> NoDoc]

\* localStorage.getItem(STORAGE_KEY) when the item was never set: null
NoItem == [isNull |-> TRUE, collections |-> <<>>]

\* { collections: [] }
EmptyState == [collections |-> <<>>]

\* what a call of the simulator gave back: the call, whether it returned, and
\* the document, documents or number returned
SimResult(op, name, ok, doc, docs, count) ==
    [op |-> op, name |-> name, ok |-> ok, doc |-> doc, docs |-> docs, count |-> count]

NoSimOut == SimResult("none", <<>>, TRUE, NoDoc, <<>>, 0)

\* useState<string | null>(null), and a selected name
NoSelection == [isNull |-> TRUE, name |-> <<>>]
Selection(name) == [isNull |-> FALSE, name |-> name]

\* the browser before anything ran in it: no item in localStorage, no
\* DbSimulator constructed, the dashboard's state as useState initialises it
\* and no request on its way
BrowserAtRest ==
    /\ localStorage = NoItem
    /\ state = EmptyState
    /\ simOut = NoSimOut
    /\ selectedCollection = NoSelection
    /\ collectionDocs = <<>>
    /\ pending = <<>>

Init ==
    /\ files = [f \in FileNames |-> NoFile]
    /\ clock = 1
    /\ php8 \in BOOLEAN
    /\ last = NoCall
    /\ procs = [p \in Procs |-> Idle]
    /\ BrowserAtRest

\* the documents the collection a name addresses holds now
DocsOf(fs, name) == ReadFile(fs, GetFilePath(name).file)

\* whether the name addresses a file that exists
Exists(fs, name) == GetFilePath(name).ok /\ fs[GetFilePath(name).file].exists

\* one call of each operation, with its arguments and the file system's answer
CreateCall(name, io) ==
    LET out == CreateCollection(files, name, io)
    IN /\ last = NoCall
       /\ files' = out.fs
       /\ last' = Call("create", name, NoDoc, <<>>, NoUpdate, io, out)
       /\ UNCHANGED <<clock, php8, procs, simVars, dashVars>>

InsertCall(name, doc, io) ==
    LET out == Insert(files, name, doc, clock, io)
    IN /\ last = NoCall
       /\ GetFilePath(name).ok => Len(DocsOf(files, name)) < MaxDocs
       /\ ~IsSet(doc, "_id") => clock <= MaxGen
       /\ files' = out.fs
       /\ clock' = IF ~IsSet(doc, "_id") THEN clock + 1 ELSE clock
       /\ last' = Call("insert", name, doc, <<>>, NoUpdate, io, out)
       /\ UNCHANGED <<php8, procs, simVars, dashVars>>

FindCall(name, query) ==
    LET out == Find(files, name, query, php8)
    IN /\ last = NoCall
       /\ last' = Call("find", name, NoDoc, query, NoUpdate, "ok", out)
       /\ UNCHANGED <<files, clock, php8, procs, simVars, dashVars>>

UpdateCall(name, query, upd, io) ==
    LET out == Update(files, name, query, upd, php8, io)
    IN /\ last = NoCall
       /\ files' = out.fs
       /\ last' = Call("update", name, NoDoc, query, upd, io, out)
       /\ UNCHANGED <<clock, php8, procs, simVars, dashVars>>

DeleteCall(name, query, io) ==
    LET out == Delete(files, name, query, php8, io)
    IN /\ last = NoCall
       /\ files' = out.fs
       /\ last' = Call("delete", name, NoDoc, query, NoUpdate, io, out)
       /\ UNCHANGED <<clock, php8, procs, simVars, dashVars>>

DropCall(name, io) ==
    LET out == Drop(files, name, io)
    IN /\ last = NoCall
       /\ files' = out.fs
       /\ last' = Call("drop", name, NoDoc, <<>>, NoUpdate, io, out)
       /\ UNCHANGED <<clock, php8, procs, simVars, dashVars>>

CreateOp == \E name \in Names, io \in WriteOutcomes : CreateCall(name, io)

InsertOp ==
    \E name \in DataNames, doc \in InsertDocs, io \in WriteOutcomes :
        InsertCall(name, doc, io)

FindOp == \E name \in DataNames, query \in Queries : FindCall(name, query)

UpdateOp ==
    \E name \in DataNames, query \in WriteQueries, upd \in Updates, io \in WriteOutcomes :
        UpdateCall(name, query, upd, io)

DeleteOp ==
    \E name \in DataNames, query \in WriteQueries, io \in WriteOutcomes :
        DeleteCall(name, query, io)

DropOp == \E name \in Names, io \in IoOutcomes : DropCall(name, io)

\* list: the names listCollections returns, as the response carries them
ListOp ==
    /\ last = NoCall
    /\ last' = [Call("list", <<>>, NoDoc, <<>>, NoUpdate, "ok",
                      Outcome(TRUE, files, NoDoc, <<>>, 0, FALSE))
                 EXCEPT !.rnames = ListNames(files)]
    /\ UNCHANGED <<files, clock, php8, procs, simVars, dashVars>>

\* the client has the response of its call and may make the next one
Receive ==
    /\ last # NoCall
    /\ last' = NoCall
    /\ UNCHANGED <<files, clock, php8, procs, simVars, dashVars>>

Next == Receive \/ CreateOp \/ InsertOp \/ FindOp \/ UpdateOp \/ DeleteOp \/ DropOp

Spec == Init /\ [][Next]_vars

----------------------------------------------------------------------------
(* The listing.  The same client, now asking for the list of collections   *)
(* between calls that make, fill, empty and remove them.                   *)

ListInsert ==
    \E name \in DataNames, io \in WriteOutcomes : InsertCall(name, DocKeyed, io)

ListUpdate ==
    \E name \in DataNames, io \in WriteOutcomes : UpdateCall(name, QAll, SetAge1, io)

ListDelete ==
    \E name \in DataNames, io \in WriteOutcomes : DeleteCall(name, QAll, io)

ListNext ==
    Receive \/ ListOp \/ CreateOp \/ DropOp \/ ListInsert \/ ListUpdate \/ ListDelete

SpecList == Init /\ [][ListNext]_vars

----------------------------------------------------------------------------
(* Another writer.  Some other program puts a file in the place of the     *)
(* collection's, or removes it, between two calls of the client (a call is *)
(* one step here, so a change during a call is a change before or after    *)
(* it).  What it leaves need not be what the engine would have written.    *)

ExtName == <<"u">>

DocExt == [f \in {"_id", "age"} |-> IF f = "_id" THEN VStr(<<"e">>) ELSE VInt(3)]

\* what the other writer leaves: no file; a JSON array of documents; a JSON
\* object, with members or without; a JSON scalar; text that is not JSON; a
\* file the engine may not read
ExtContents ==
    {NoFile,
     FileOf(JsonEncode(<<>>)),
     FileOf(JsonEncode(<<DocExt>>)),
     FileOf(JsonEncode(<<DocKeyed, DocExt>>)),
     FileOf([kind |-> "object", items |-> <<EncodeDoc(DocExt)>>]),
     FileOf([kind |-> "object", items |-> <<>>]),
     FileOf([kind |-> "scalar", items |-> <<>>]),
     FileOf(Truncated),
     FileOf([kind |-> "unreadable", items |-> <<>>])}

ExtWrite ==
    \E content \in ExtContents :
        /\ last = NoCall
        /\ files' = [files EXCEPT ![GetFilePath(ExtName).file] = content]
        /\ UNCHANGED <<clock, php8, last, procs, simVars, dashVars>>

QAge3 == QAge(3)
UnsetId == UpdateOf(FALSE, <<>>, TRUE, <<"_id">>)

ExtFind == \E query \in {QAll, QAge3} : FindCall(ExtName, query)

ExtInsert == \E io \in WriteOutcomes : InsertCall(ExtName, DocAge1, io)

ExtUpdate ==
    \E query \in {QAll, QAge3}, upd \in {SetAge1, SetIdK, UnsetId}, io \in WriteOutcomes :
        UpdateCall(ExtName, query, upd, io)

ExtDelete ==
    \E query \in {QAll, QAge3}, io \in WriteOutcomes : DeleteCall(ExtName, query, io)

ExtNext == ExtWrite \/ Receive \/ ExtFind \/ ExtInsert \/ ExtUpdate \/ ExtDelete

SpecExt == Init /\ [][ExtNext]_vars

----------------------------------------------------------------------------
(* Two requests at once.  Each PHP request runs insert() on its own: it    *)
(* reads the file, builds its array, and writes the file, with nothing     *)
(* that keeps the other request out in between.                            *)

ConcNames == {<<"u">>, <<"u", "-">>}

\* the documents the two requests insert: one without an _id, one with
ConcDocs == {DocAge1, DocKeyed}

\* readCollection, and the _id of the document, in request p
ConcRead(p) ==
    \E name \in ConcNames, doc \in ConcDocs :
        /\ procs[p].pc = "idle"
        /\ Len(DocsOf(files, name)) < MaxDocs
        /\ ~IsSet(doc, "_id") => clock <= MaxGen
        /\ procs' = [procs EXCEPT ![p] =
                        [pc |-> "read", name |-> name, doc |-> doc,
                         data |-> DocsOf(files, name), stored |-> WithId(doc, clock)]]
        /\ clock' = IF ~IsSet(doc, "_id") THEN clock + 1 ELSE clock
        /\ UNCHANGED <<files, php8, last, simVars, dashVars>>

\* writeCollection in request p, and its return or its exception
ConcWrite(p) ==
    \E io \in WriteOutcomes :
        /\ procs[p].pc = "read"
        /\ files' = IF io = "ok"
                    THEN InsertWrite(files, GetFilePath(procs[p].name).file,
                                     procs[p].data, procs[p].stored)
                    ELSE FailedWrite(files, GetFilePath(procs[p].name).file, io)
        /\ procs' = [procs EXCEPT ![p].pc = IF io = "ok" THEN "done" ELSE "failed"]
        /\ UNCHANGED <<clock, php8, last, simVars, dashVars>>

\* request p has sent its response and ends
ConcEnd(p) ==
    /\ procs[p].pc \in {"done", "failed"}
    /\ procs' = [procs EXCEPT ![p] = Idle]
    /\ UNCHANGED <<files, clock, php8, last, simVars, dashVars>>

ConcNext == \E p \in Procs : ConcRead(p) \/ ConcWrite(p) \/ ConcEnd(p)

SpecConc == Init /\ [][ConcNext]_vars

----------------------------------------------------------------------------
(* match() on its own: a document as readCollection returns it, a query as *)
(* the request carries it, and the answer of match().                      *)

DocNoAge == [f \in {"name"} |-> VStr(<<"x">>)]
DocAgeStr == [f \in {"age"} |-> VStr(<<"1">>)]
DocAgeWord == [f \in {"age"} |-> VStr(<<"a">>)]
JohnEmail == <<"j", "o", "h", "n", "@", "e", "x", "a", "m", "p", "l", "e", ".", "c", "o", "m">>
DocJohn == [f \in {"email"} |-> VStr(JohnEmail)]

MatchDocs == {DocNoAge, DocAge1, DocAgeStr, DocAgeWord, DocAge2X, DocJohn}

\* "0" is the key 0 of a JSON object
MatchOps == {"$eq", "$ne", "$gt", "$lt", "$regex", "$in", "$foo", "0"}

MatchValues == {VNull, VInt(0), VInt(1), VStr(<<"1">>), VStr(<<"a">>)}

\* operands: scalars, and lists (also the empty one)
MatchArgs ==
    {Scalar(v) : v \in MatchValues}
        \cup {ListOf(<<>>), ListOf(<<VInt(1)>>), ListOf(<<VInt(0), VStr(<<"a">>)>>)}

\* criteria on age: a literal, an empty mapping, one operator, or $gt and
\* $lt together in either order
AgeCrits ==
    {Lit(v) : v \in MatchValues}
        \cup {Ops(<<>>)}
        \cup {Ops(<<Op(o, a)>>) : o \in MatchOps, a \in MatchArgs}
        \cup {Ops(<<Op("$gt", Scalar(VInt(a))), Op("$lt", Scalar(VInt(b)))>>) :
                 a \in 0..1, b \in 1..3}
        \cup {Ops(<<Op("$lt", Scalar(VInt(b))), Op("$gt", Scalar(VInt(a)))>>) :
                 a \in 0..1, b \in 1..3}

NameCrits ==
    {Lit(VStr(<<"x">>)), Lit(VStr(<<"y">>)),
     Ops(<<Op("$ne", Scalar(VStr(<<"x">>)))>>),
     Ops(<<Op("$in", ListOf(<<VStr(<<"x">>)>>))>>)}

\* patterns as the dashboard's presets write them, without delimiters
PlainPatterns == {<<"E", "X", "A", "M", "P", "L", "E">>, <<"e", "x">>, <<"h", "t", "t", "p">>}

\* patterns with delimiters that compile
DelimitedPatterns ==
    {<<"/", "E", "X", "A", "M", "P", "L", "E", "/", "i">>,
     <<"/", "E", "X", "A", "M", "P", "L", "E", "/">>,
     <<"/", "n", ".", "e", "/">>, <<"!", "1", "!">>, <<"/", "/">>}

\* malformed patterns: a group or a class that nothing closes, with and
\* without delimiters, a missing closing delimiter, an unknown modifier, and
\* the empty pattern
MalformedPatterns ==
    {<<"/", "(", "/">>, <<"/", "e", "[", "/">>, <<"(">>, <<"[", "a">>,
     <<"/", "e">>, <<"/", "e", "/", "Z">>, <<>>}

RegexCrits ==
    {Ops(<<Op("$regex", Scalar(VStr(p)))>>) :
        p \in PlainPatterns \cup DelimitedPatterns \cup MalformedPatterns}
        \cup {Ops(<<Op("$regex", Scalar(VStr(<<"/", "(", "/">>))),
                    Op("$ne", Scalar(VNull))>>),
              Ops(<<Op("$foo", Scalar(VInt(1))), Op("$gt", Scalar(VInt(0)))>>),
              Ops(<<Op("$lt", Scalar(VInt(2))), Op("0", Scalar(VInt(2)))>>)}

\* queries of no, one or two fields; a key occurs once, as in a PHP array
MatchQueries ==
    {<<>>}
        \cup {<<Clause(k, c)>> : k \in {"email", "age"}, c \in RegexCrits}
        \cup {<<Clause("age", c)>> : c \in AgeCrits}
        \cup {<<Clause("name", d)>> : d \in NameCrits}
        \cup {<<Clause("age", c), Clause("name", d)>> : c \in AgeCrits, d \in NameCrits}
        \cup {<<Clause("name", d), Clause("age", c)>> : c \in AgeCrits, d \in NameCrits}

InitMatch ==
    /\ files = [f \in FileNames |-> NoFile]
    /\ clock = 1
    /\ php8 \in BOOLEAN
    /\ procs = [p \in Procs |-> Idle]
    /\ BrowserAtRest
    /\ \E doc \in MatchDocs, query \in MatchQueries :
          last = Call("input", <<>>, doc, query, NoUpdate, "ok", Thrown(files))

\* match($doc, $query) returns
MatchStep ==
    /\ last.op = "input"
    /\ last' = [last EXCEPT !.op = "match",
                            !.ok = ~MatchThrows(last.doc, last.query, php8),
                            !.rflag = /\ ~MatchThrows(last.doc, last.query, php8)
                                      /\ Match(last.doc, last.query, php8)]
    /\ UNCHANGED <<files, clock, php8, procs, simVars, dashVars>>

SpecMatch == InitMatch /\ [][MatchStep]_vars

----------------------------------------------------------------------------
(* find, update and delete with $regex clauses on the field name of stored *)
(* documents: patterns that compile, patterns that do not, and an operand  *)
(* that is not a string.                                                   *)

RegexOperands ==
    {Scalar(VStr(p)) : p \in MalformedPatterns \cup {<<"/", "x", "/">>, <<"/", "X", "/", "i">>, <<"x">>}}
        \cup {ListOf(<<VStr(<<"/", "x", "/">>)>>)}

RegexQueries ==
    {<<Clause("name", Ops(<<Op("$regex", a)>>))>> : a \in RegexOperands}
        \cup {<<Clause("age", Lit(VInt(2))),
                Clause("name", Ops(<<Op("$ne", Scalar(VNull)), Op("$regex", a)>>))>> :
                    a \in RegexOperands}

RegexInsert == \E doc \in {DocAge1, DocAge2X} : InsertCall(ExtName, doc, "ok")

RegexFind == \E query \in RegexQueries : FindCall(ExtName, query)

RegexUpdate ==
    \E query \in RegexQueries, io \in WriteOutcomes : UpdateCall(ExtName, query, SetAge1, io)

RegexDelete ==
    \E query \in RegexQueries, io \in WriteOutcomes : DeleteCall(ExtName, query, io)

RegexNext == Receive \/ RegexInsert \/ RegexFind \/ RegexUpdate \/ RegexDelete

SpecRegex == Init /\ [][RegexNext]_vars

----------------------------------------------------------------------------
(* DbSimulator, the engine of src/services/dbSimulator.ts that keeps its   *)
(* collections in memory and in one localStorage item.  Values are the     *)
(* JavaScript ones: a number is VInt, and a field an object does not have  *)
(* reads as undefined.                                                     *)

VUndef == [t |-> "undef", n |-> 0, s |-> <<>>]

\* doc[key]
JsField(doc, key) == IF key \in DOMAIN doc THEN doc[key] ELSE VUndef

\* a === b
StrictEq(a, b) == IF IsNum(a) /\ IsNum(b) THEN a.n = b.n ELSE a = b

\* String(v)
JsToString(v) ==
    CASE v.t = "undef" -> <<"u", "n", "d", "e", "f", "i", "n", "e", "d">>
      [] v.t = "null" -> <<"n", "u", "l", "l">>
      [] IsNum(v) -> IntToStr(v.n)
      [] OTHER -> v.s

\* ToNumber(v): a number or NaN (strings with blanks, signs or fractions are
\* outside the model's operands)
NaN == [nan |-> TRUE, n |-> 0]
Num(n) == [nan |-> FALSE, n |-> n]
ToNumber(v) ==
    CASE v.t = "undef" -> NaN
      [] v.t = "null" -> Num(0)
      [] IsNum(v) -> Num(v.n)
      [] OTHER -> IF v.s = <<>> THEN Num(0)
                  ELSE IF IsNumericStr(v.s) THEN Num(StrToNum(v.s))
                  ELSE NaN

\* Array.prototype.join(","): null and undefined entries are empty
RECURSIVE Join(_)
Join(items) ==
    IF items = <<>> THEN <<>>
    ELSE LET first == IF Head(items).t \in {"null", "undef"} THEN <<>>
                      ELSE JsToString(Head(items))
         IN IF Len(items) = 1 THEN first
            ELSE first \o <<",">> \o Join(Tail(items))

\* ToPrimitive of an operand: an array becomes its joined entries
ToPrimitive(arg) == IF arg.isList THEN VStr(Join(arg.items)) ELSE arg.v

\* a <= b on primitives: two strings by code units, anything else as numbers,
\* false when one of them is NaN; a >= b is b <= a
JsLe(a, b) ==
    IF a.t = "str" /\ b.t = "str" THEN StrCmp(a.s, b.s) <= 0
    ELSE /\ ~ToNumber(a).nan
         /\ ~ToNumber(b).nan
         /\ ToNumber(a).n <= ToNumber(b).n

\* new RegExp(expected, 'i') throws a SyntaxError for a group or a class
\* that nothing closes
RegExpThrows(arg) ==
    \E k \in 1..Len(JsToString(ToPrimitive(arg))) :
        JsToString(ToPrimitive(arg))[k] \in {"(", "["}

\* new RegExp(expected, 'i').test(subject): the pattern is literal
\* characters and '.', found anywhere, letters in either case
RegExpTest(arg, subject) ==
    LET body == JsToString(ToPrimitive(arg))
    IN \E i \in 0..(Len(subject) - Len(body)) :
          \A k \in 1..Len(body) : CharMatches(body[k], subject[i + k], TRUE)

\* one case of match()'s switch: whether it returns false
JsClauseFails(val, op, arg) ==
    CASE op = "$eq" -> arg.isList \/ ~StrictEq(val, arg.v)
      [] op = "$ne" -> ~arg.isList /\ StrictEq(val, arg.v)
      [] op = "$gt" -> JsLe(val, ToPrimitive(arg))
      [] op = "$lt" -> JsLe(ToPrimitive(arg), val)
      [] op = "$regex" -> ~RegExpTest(arg, JsToString(val))
      [] op = "$in" -> ~arg.isList \/ ~\E i \in 1..Len(arg.items) : StrictEq(val, arg.items[i])
      [] OTHER -> FALSE

\* for (const op in criteria), from pair i on
RECURSIVE JsOpsHold(_, _, _)
JsOpsHold(val, ops, i) ==
    IF i > Len(ops) THEN TRUE
    ELSE IF JsClauseFails(val, ops[i].op, ops[i].arg) THEN FALSE
    ELSE JsOpsHold(val, ops, i + 1)

\* whether that loop reaches a new RegExp that throws
RECURSIVE JsOpsThrow(_, _, _)
JsOpsThrow(val, ops, i) ==
    IF i > Len(ops) THEN FALSE
    ELSE IF ops[i].op = "$regex" /\ RegExpThrows(ops[i].arg) THEN TRUE
    ELSE IF JsClauseFails(val, ops[i].op, ops[i].arg) THEN FALSE
    ELSE JsOpsThrow(val, ops, i + 1)

\* DbSimulator.match: for (const key in query), from pair i on
RECURSIVE JsMatchFrom(_, _, _)
JsMatchFrom(doc, query, i) ==
    IF i > Len(query) THEN TRUE
    ELSE LET val == JsField(doc, query[i].key)
             criteria == query[i].crit
         IN IF criteria.isOps
            THEN IF JsOpsHold(val, criteria.ops, 1)
                 THEN JsMatchFrom(doc, query, i + 1)
                 ELSE FALSE
            ELSE IF ~StrictEq(val, criteria.v)
                 THEN FALSE
                 ELSE JsMatchFrom(doc, query, i + 1)

JsMatch(doc, query) == JsMatchFrom(doc, query, 1)

RECURSIVE JsMatchThrowsFrom(_, _, _)
JsMatchThrowsFrom(doc, query, i) ==
    IF i > Len(query) THEN FALSE
    ELSE LET val == JsField(doc, query[i].key)
             criteria == query[i].crit
         IN IF criteria.isOps
            THEN IF JsOpsThrow(val, criteria.ops, 1) THEN TRUE
                 ELSE IF JsOpsHold(val, criteria.ops, 1)
                      THEN JsMatchThrowsFrom(doc, query, i + 1)
                      ELSE FALSE
            ELSE IF ~StrictEq(val, criteria.v)
                 THEN FALSE
                 ELSE JsMatchThrowsFrom(doc, query, i + 1)

\* documents.filter(doc => this.match(doc, query)) ends in an exception
FilterThrows(documents, query) ==
    \E i \in 1..Len(documents) : JsMatchThrowsFrom(documents[i], query, 1)

\* JSON.stringify and JSON.parse of one value and of one document; a member
\* that is undefined is left out
StringifyVal(v) ==
    CASE v.t = "null" -> [j |-> "null", n |-> 0, s |-> <<>>]
      [] IsNum(v) -> [j |-> "num", n |-> v.n, s |-> <<>>]
      [] OTHER -> [j |-> "str", n |-> 0, s |-> v.s]

ParseVal(j) ==
    CASE j.j = "null" -> VNull
      [] j.j = "num" -> VInt(j.n)
      [] OTHER -> VStr(j.s)

StringifyDoc(doc) == [k \in {f \in DOMAIN doc : doc[f].t # "undef"} |-> StringifyVal(doc[k])]
ParseDoc(jd) == [k \in DOMAIN jd |-> ParseVal(jd[k])]

\* JSON.stringify(this.state), as the item localStorage holds
JsonStringify(st) ==
    [isNull |-> FALSE,
     collections |->
        [i \in 1..Len(st.collections) |->
            [name |-> st.collections[i].name,
             documents |-> [d \in 1..Len(st.collections[i].documents) |->
                               StringifyDoc(st.collections[i].documents[d])],
             createdAt |-> st.collections[i].createdAt]]]

\* JSON.parse(saved)
JsonParse(item) ==
    [collections |->
        [i \in 1..Len(item.collections) |->
            [name |-> item.collections[i].name,
             documents |-> [d \in 1..Len(item.collections[i].documents) |->
                               ParseDoc(item.collections[i].documents[d])],
             createdAt |-> item.collections[i].createdAt]]]

\* this.state.collections.find(c => c.name === name): its index, 0 for
\* undefined
CollIndex(st, name) ==
    LET at == {i \in 1..Len(st.collections) : st.collections[i].name = name}
    IN IF at = {} THEN 0 ELSE CHOOSE i \in at : \A j \in at : i <= j

\* what a method leaves and gives back: whether it returned, this.state,
\* whether it called save(), and the value returned
SimOutcome(ok, st, saved, doc, docs, count) ==
    [ok |-> ok, state |-> st, saved |-> saved, doc |-> doc, docs |-> docs, count |-> count]

SimThrown(st) == SimOutcome(FALSE, st, FALSE, NoDoc, <<>>, 0)

SimCreateCollection(st, name, now) ==
    IF CollIndex(st, name) # 0 THEN SimOutcome(TRUE, st, FALSE, NoDoc, <<>>, 0)
    ELSE SimOutcome(TRUE,
                    [collections |-> Append(st.collections,
                                            [name |-> name, documents |-> <<>>, createdAt |-> now])],
                    TRUE, NoDoc, <<>>, 0)

SimDeleteCollection(st, name) ==
    SimOutcome(TRUE, [collections |-> SelectSeq(st.collections, LAMBDA c : c.name # name)],
               TRUE, NoDoc, <<>>, 0)

\* insert: the _id is always a new one, `doc_${Math.random()...}`, here id
SimInsert(st, collectionName, doc, id) ==
    LET i == CollIndex(st, collectionName)
    IN IF i = 0 THEN SimThrown(st)
       ELSE LET newDoc == SetField(doc, "_id", id)
            IN SimOutcome(TRUE,
                          [collections |-> [st.collections EXCEPT
                                               ![i].documents = Append(@, newDoc)]],
                          TRUE, newDoc, <<>>, 0)

SimFind(st, collectionName, query) ==
    LET i == CollIndex(st, collectionName)
    IN IF i = 0 THEN SimOutcome(TRUE, st, FALSE, NoDoc, <<>>, 0)
       ELSE IF query = <<>>
            THEN SimOutcome(TRUE, st, FALSE, NoDoc, st.collections[i].documents, 0)
       ELSE IF FilterThrows(st.collections[i].documents, query) THEN SimThrown(st)
       ELSE SimOutcome(TRUE, st, FALSE, NoDoc,
                       SelectSeq(st.collections[i].documents, LAMBDA d : JsMatch(d, query)), 0)

SimDelete(st, collectionName, query) ==
    LET i == CollIndex(st, collectionName)
    IN IF i = 0 THEN SimOutcome(TRUE, st, FALSE, NoDoc, <<>>, 0)
       ELSE IF FilterThrows(st.collections[i].documents, query) THEN SimThrown(st)
       ELSE LET kept == SelectSeq(st.collections[i].documents, LAMBDA d : ~JsMatch(d, query))
            IN SimOutcome(TRUE,
                          [collections |-> [st.collections EXCEPT ![i].documents = kept]],
                          TRUE, NoDoc, <<>>,
                          Len(st.collections[i].documents) - Len(kept))

\* the seed data of the constructor
Users == <<"u", "s", "e", "r", "s">>
Products == <<"p", "r", "o", "d", "u", "c", "t", "s">>

John ==
    [f \in {"name", "email", "age", "role"} |->
        CASE f = "name" -> VStr(<<"J", "o", "h", "n", " ", "D", "o", "e">>)
          [] f = "email" -> VStr(JohnEmail)
          [] f = "age" -> VInt(30)
          [] OTHER -> VStr(<<"a", "d", "m", "i", "n">>)]

Jane ==
    [f \in {"name", "email", "age", "role"} |->
        CASE f = "name" -> VStr(<<"J", "a", "n", "e", " ", "S", "m", "i", "t", "h">>)
          [] f = "email" -> VStr(<<"j", "a", "n", "e", "@", "e", "x", "a", "m", "p", "l", "e", ".", "c", "o", "m">>)
          [] f = "age" -> VInt(25)
          [] OTHER -> VStr(<<"u", "s", "e", "r">>)]

Laptop ==
    [f \in {"name", "price", "stock"} |->
        CASE f = "name" -> VStr(<<"L", "a", "p", "t", "o", "p">>)
          [] f = "price" -> VInt(1200)
          [] OTHER -> VInt(15)]

\* the values Math.random() and Date.now() give the model: MaxIds different
\* identifiers, which a call may draw again, and the times 1..MaxTime
SimIds == {VStr(<<"d", "o", "c", "_">> \o NatToStr(i)) : i \in 1..MaxIds}
SimTimes == 1..MaxTime

\* the five seeding calls of the constructor, with the identifiers and the
\* times they draw
Seed(st, ids, t1, t2) ==
    LET s1 == SimCreateCollection(st, Users, t1).state
        s2 == SimInsert(s1, Users, John, ids[1]).state
        s3 == SimInsert(s2, Users, Jane, ids[2]).state
        s4 == SimCreateCollection(s3, Products, t2).state
    IN SimInsert(s4, Products, Laptop, ids[3]).state

\* new DbSimulator(): the saved state or { collections: [] }, seeded when it
\* has no collection
Constructor(item, ids, t1, t2) ==
    LET loaded == IF item.isNull THEN EmptyState ELSE JsonParse(item)
    IN IF Len(loaded.collections) = 0
       THEN [state |-> Seed(loaded, ids, t1, t2), saved |-> TRUE]
       ELSE [state |-> loaded, saved |-> FALSE]

\* save() when the method called it
Saved(out, item) == IF out.saved THEN JsonStringify(out.state) ELSE item

\* the calls on the simulator; like the engine's client, the caller takes the
\* result of one call (SimReturn) before it makes the next
SimConstruct ==
    \E ids \in [1..3 -> SimIds], t1 \in SimTimes, t2 \in SimTimes :
        /\ simOut = NoSimOut
        /\ t1 <= t2
        /\ state' = Constructor(localStorage, ids, t1, t2).state
        /\ localStorage' = Saved(Constructor(localStorage, ids, t1, t2), localStorage)
        /\ simOut' = SimResult("construct", <<>>, TRUE, NoDoc, <<>>, 0)
        /\ UNCHANGED <<storeVars, procs, dashVars>>

SimCall(op, name, out) ==
    /\ state' = out.state
    /\ localStorage' = Saved(out, localStorage)
    /\ simOut' = SimResult(op, name, out.ok, out.doc, out.docs, out.count)
    /\ UNCHANGED <<storeVars, procs, dashVars>>

SimCreateCall(name, now) ==
    /\ simOut = NoSimOut
    /\ SimCall("createCollection", name, SimCreateCollection(state, name, now))

SimDeleteCollectionCall(name) ==
    /\ simOut = NoSimOut
    /\ SimCall("deleteCollection", name, SimDeleteCollection(state, name))

SimInsertCall(name, doc, id) ==
    /\ simOut = NoSimOut
    /\ CollIndex(state, name) # 0 =>
          Len(state.collections[CollIndex(state, name)].documents) < MaxDocs
    /\ SimCall("insert", name, SimInsert(state, name, doc, id))

SimFindCall(name, query) ==
    /\ simOut = NoSimOut
    /\ SimCall("find", name, SimFind(state, name, query))

SimDeleteCall(name, query) ==
    /\ simOut = NoSimOut
    /\ SimCall("delete", name, SimDelete(state, name, query))

SimReturn ==
    /\ simOut # NoSimOut
    /\ simOut' = NoSimOut
    /\ UNCHANGED <<storeVars, procs, localStorage, state, dashVars>>

\* the names both engines are called with: one the simulator seeds, one it
\* does not
BothNames == {Users, <<"u">>}

\* the module is loaded in a browser without the item: export const db = new
\* DbSimulator(); the engine's directory is empty
InitSim ==
    /\ files = [f \in {Sanitize(n) : n \in BothNames} |-> NoFile]
    /\ clock = 1
    /\ php8 \in BOOLEAN
    /\ last = NoCall
    /\ procs = [p \in Procs |-> Idle]
    /\ \E ids \in [1..3 -> SimIds], t1 \in SimTimes, t2 \in SimTimes :
          /\ t1 <= t2
          /\ state = Constructor(NoItem, ids, t1, t2).state
          /\ localStorage = JsonStringify(state)
    /\ simOut = NoSimOut
    /\ selectedCollection = NoSelection
    /\ collectionDocs = <<>>
    /\ pending = <<>>

SimNames == {Users, Products}

QAgeGt(i) == <<Clause("age", Ops(<<Op("$gt", Scalar(VInt(i)))>>))>>
QNameRegex(p) == <<Clause("name", Ops(<<Op("$regex", Scalar(VStr(p)))>>))>>

SimQueries == {QAll, QAge(1), QAgeGt(26), QNameRegex(<<"(">>), QNameRegex(<<"J", "O", "H", "N">>)}

SimCreateOp == \E name \in SimNames, now \in SimTimes : SimCreateCall(name, now)

SimDeleteCollectionOp == \E name \in SimNames : SimDeleteCollectionCall(name)

SimInsertOp == \E name \in SimNames, id \in SimIds : SimInsertCall(name, DocAge1, id)

SimFindOp == \E name \in SimNames, query \in SimQueries : SimFindCall(name, query)

SimDeleteOp == \E name \in SimNames, query \in SimQueries : SimDeleteCall(name, query)

SimNext ==
    \/ SimConstruct
    \/ SimReturn
    \/ SimCreateOp
    \/ SimDeleteCollectionOp
    \/ SimInsertOp
    \/ SimFindOp
    \/ SimDeleteOp

SpecSim == InitSim /\ [][SimNext]_vars

----------------------------------------------------------------------------
(* The two engines side by side: every call is made on the PHP engine and  *)
(* then, with the same arguments, on the simulator; the caller takes both  *)
(* results before the next call.  Documents are inserted without an _id    *)
(* into a collection that was created; predicates are literals (null too)  *)
(* and $eq, $ne, $gt, $lt and $in.                                         *)

BothDocs == {DocAge1, DocAge2X}

BothCrits ==
    {Lit(VNull), Lit(VInt(1))}
        \cup {Ops(<<Op(o, Scalar(VInt(1)))>>) : o \in {"$eq", "$ne", "$gt", "$lt"}}
        \cup {Ops(<<Op("$in", ListOf(<<VInt(1), VStr(<<"2">>)>>))>>)}

BothQueries ==
    {QAll, QNameX}
        \cup {<<Clause("age", c)>> : c \in BothCrits}
        \cup {<<Clause("name", Lit(VNull))>>, <<Clause("name", Ops(<<Op("$gt", Scalar(VInt(1)))>>))>>}

BothCreate == \E name \in BothNames : CreateCall(name, "ok")

BothInsert ==
    \E name \in BothNames, doc \in BothDocs :
        /\ Exists(files, name)
        /\ InsertCall(name, doc, "ok")

BothFind == \E name \in BothNames, query \in BothQueries : FindCall(name, query)

BothDelete == \E name \in BothNames, query \in BothQueries : DeleteCall(name, query, "ok")

MirrorCreate ==
    /\ last.op = "create"
    /\ \E now \in SimTimes : SimCreateCall(last.name, now)

MirrorInsert ==
    /\ last.op = "insert"
    /\ simOut = NoSimOut
    /\ \E id \in SimIds : SimCall("insert", last.name, SimInsert(state, last.name, last.doc, id))

MirrorFind == last.op = "find" /\ SimFindCall(last.name, last.query)

MirrorDelete == last.op = "delete" /\ SimDeleteCall(last.name, last.query)

BothReturn ==
    /\ last # NoCall
    /\ simOut # NoSimOut
    /\ last' = NoCall
    /\ simOut' = NoSimOut
    /\ UNCHANGED <<files, clock, php8, procs, localStorage, state, dashVars>>

BothNext ==
    \/ BothCreate
    \/ BothInsert
    \/ BothFind
    \/ BothDelete
    \/ MirrorCreate
    \/ MirrorInsert
    \/ MirrorFind
    \/ MirrorDelete
    \/ BothReturn

SpecBoth == InitSim /\ [][BothNext]_vars

----------------------------------------------------------------------------
(* The dashboard's collection view (src/App.tsx): selecting a collection   *)
(* sets selectedCollection, whose effect calls fetchCollectionDocs; that   *)
(* awaits the engine's answer to find(name, {}) and stores it with         *)
(* setCollectionDocs.  pending holds the requests on their way, oldest     *)
(* first; the server answers them, and the answers arrive, in any order.   *)

MaxPending == 3

\* a request of getCollectionDocs(name): sent, or answered with documents
Request(name) == [name |-> name, answered |-> FALSE, ok |-> FALSE, docs |-> <<>>]

\* pending without its i-th request
Without(reqs, i) == SubSeq(reqs, 1, i - 1) \o SubSeq(reqs, i + 1, Len(reqs))

\* the dashboard is mounted while the engine holds two collections with one
\* document each, stored by two earlier inserts
InitDash ==
    /\ files = [f \in FileNames |->
                  IF f = <<"u">> THEN InsertWrite([g \in FileNames |-> NoFile], f, <<>>,
                                                  WithId(DocAge1, 1))[f]
                  ELSE InsertWrite([g \in FileNames |-> NoFile], f, <<>>,
                                   WithId(DocAge2X, 2))[f]]
    /\ clock = 3
    /\ php8 \in BOOLEAN
    /\ last = NoCall
    /\ procs = [p \in Procs |-> Idle]
    /\ BrowserAtRest

\* onClick={() => setSelectedCollection(col.name)} with another name than the
\* selected one, and the effect that follows: fetchCollectionDocs(name) up to
\* its await
SelectCollection ==
    \E name \in FileNames :
        /\ selectedCollection # Selection(name)
        /\ Len(pending) < MaxPending
        /\ selectedCollection' = Selection(name)
        /\ pending' = Append(pending, Request(name))
        /\ UNCHANGED <<storeVars, procs, simVars, collectionDocs>>

\* api.php answers one of the requests: find(name, {})
ServeRequest ==
    \E i \in 1..Len(pending) :
        /\ ~pending[i].answered
        /\ pending' = [pending EXCEPT
                          ![i].answered = TRUE,
                          ![i].ok = Find(files, pending[i].name, QAll, php8).ok,
                          ![i].docs = Find(files, pending[i].name, QAll, php8).docs]
        /\ UNCHANGED <<storeVars, procs, simVars, selectedCollection, collectionDocs>>

\* an answer arrives and fetchCollectionDocs goes on after its await:
\* setCollectionDocs(docs), or setLastError when the request failed
ReceiveDocs ==
    \E i \in 1..Len(pending) :
        /\ pending[i].answered
        /\ collectionDocs' = IF pending[i].ok THEN pending[i].docs ELSE collectionDocs
        /\ pending' = Without(pending, i)
        /\ UNCHANGED <<storeVars, procs, simVars, selectedCollection>>

DashNext == SelectCollection \/ ServeRequest \/ ReceiveDocs

SpecDash == InitDash /\ [][DashNext]_vars

----------------------------------------------------------------------------
(* Properties.                                                             *)

\* two documents are the same JSON document: the same keys, and values that
\* json_encode writes alike (the client cannot tell 2 from 2.0)
SameDoc(a, b) == EncodeDoc(a) = EncodeDoc(b)

\* the query {key: value}
QField(key, v) == <<Clause(key, Lit(v))>>

\* the k-th smallest member of a set of indices
KthOf(S, k) == CHOOSE i \in S : Cardinality({j \in S : j < i}) = k - 1

\* the indices of the documents of data that satisfy query
MatchingIndices(data, query, p8) == {i \in 1..Len(data) : Match(data[i], query, p8)}

\* C1: a document inserted without an _id comes back with a non-empty _id, and
\* find by that _id, made on the state the insert left, returns exactly one
\* document: the inserted one with the _id added.
C1_InsertedIdFindsExactlyIt ==
    (last.op = "insert" /\ last.ok /\ ~IsSet(last.doc, "_id")) =>
        /\ IsSet(last.rdoc, "_id")
        /\ last.rdoc["_id"].t = "str"
        /\ last.rdoc["_id"].s # <<>>
        /\ LET found == Find(files, last.name, QField("_id", last.rdoc["_id"]), php8)
           IN /\ found.ok
              /\ Len(found.docs) = 1
              /\ SameDoc(found.docs[1], SetField(last.doc, "_id", last.rdoc["_id"]))

\* C1 witness: an insert without _id returned while the collection already
\* held another generated document.
C1_Witness ==
    /\ last.op = "insert" /\ last.ok /\ ~IsSet(last.doc, "_id")
    /\ Len(DocsOf(files, last.name)) >= 2
    /\ \E i \in 1..(Len(DocsOf(files, last.name)) - 1) :
          ~Identical(DocsOf(files, last.name)[i]["_id"], KeyK)

\* C2 (as claimed): every stored document has a non-empty _id and no two
\* documents of one collection share an _id.
C2_IdsNonEmptyAndUnique ==
    \A f \in FileNames :
        LET data == ReadFile(files, f)
        IN /\ \A i \in 1..Len(data) :
                 IsSet(data[i], "_id") /\ ToStr(data[i]["_id"]) # <<>>
           /\ \A i, j \in 1..Len(data) :
                 i # j => ~Identical(data[i]["_id"], data[j]["_id"])

\* C4: find returns the matching documents of the collection, all of them and
\* nothing else, in the order the collection holds them; {} returns them all.
C4_FindIsOrderedFilter ==
    (last.op = "find" /\ last.ok) =>
        LET data == DocsOf(files, last.name)
            hits == MatchingIndices(data, last.query, php8)
        IN /\ Len(last.rdocs) = Cardinality(hits)
           /\ \A k \in 1..Len(last.rdocs) : last.rdocs[k] = data[KthOf(hits, k)]
           /\ last.query = <<>> => last.rdocs = data

\* C4 witness: a find that returned two of three documents, skipping one that
\* is not the last.
C4_Witness ==
    /\ last.op = "find" /\ last.ok
    /\ Len(DocsOf(files, last.name)) = 3
    /\ Len(last.rdocs) = 2
    /\ last.rdocs[2] = DocsOf(files, last.name)[3]

\* C5: a successful insert leaves the collection as it was plus one document
\* at the end; that document is D, with a generated _id when D had none and
\* with D's own _id otherwise, and it is the document insert returned.
C5_InsertAppendsOne ==
    [][(last'.op = "insert" /\ last'.ok) =>
          LET before == DocsOf(files, last'.name)
              after == DocsOf(files', last'.name)
              D == last'.doc
              new == after[Len(after)]
          IN /\ Len(after) = Len(before) + 1
             /\ SubSeq(after, 1, Len(before)) = before
             /\ SameDoc(new, last'.rdoc)
             /\ IF IsSet(D, "_id")
                THEN SameDoc(new, D)
                ELSE /\ IsSet(new, "_id")
                     /\ SameDoc(UnsetField(new, "_id"), UnsetField(D, "_id"))]_vars

\* C5 witness: an insert with a caller-supplied _id returned, into a
\* collection that already held two documents.
C5_Witness ==
    /\ last.op = "insert" /\ last.ok /\ IsSet(last.doc, "_id")
    /\ Len(DocsOf(files, last.name)) = 3
    /\ DocsOf(files, last.name)[1] # DocsOf(files, last.name)[2]

\* C6 (as claimed): after insert(name, D), find by exact match on any field of
\* D returns a result that contains the inserted document.
C6_InsertThenFindByField ==
    (last.op = "insert" /\ last.ok) =>
        \A k \in DOMAIN last.doc :
            LET found == Find(files, last.name, QField(k, last.doc[k]), php8)
            IN /\ found.ok
               /\ \E i \in 1..Len(found.docs) : SameDoc(found.docs[i], last.rdoc)

\* C7: create on a collection that exists returns without error and leaves
\* every file as it was.
C7_CreateExistingIsNoOp ==
    [][(last'.op = "create" /\ Exists(files, last'.name)) =>
          (last'.ok /\ files' = files)]_vars

\* C7 witness: create returned on a collection that holds documents, with a
\* file system that would have refused a write.
C7_Witness ==
    /\ last.op = "create" /\ last.ok /\ last.io = "denied"
    /\ Len(DocsOf(files, last.name)) >= 2

\* C8: a successful delete with the empty predicate returns the number of
\* documents the collection held before it, and find {} afterwards is empty.
C8_DeleteAllCountsAndEmpties ==
    [][(last'.op = "delete" /\ last'.ok /\ last'.query = <<>>) =>
          /\ last'.rcount = Len(DocsOf(files, last'.name))
          /\ Find(files', last'.name, <<>>, php8).ok
          /\ Find(files', last'.name, <<>>, php8).docs = <<>>]_vars

\* C8 witness: delete {} returned 3 and the collection is there, empty.
C8_Witness ==
    /\ last.op = "delete" /\ last.ok /\ last.query = <<>>
    /\ last.rcount = 3
    /\ Exists(files, last.name)
    /\ DocsOf(files, last.name) = <<>>

\* the keys a $set assigns
SetKeys(set) == {set[i].k : i \in 1..Len(set)}

\* C9: a successful update with only $set returns the number of documents
\* that match; each of them gets every field of $set and keeps its other
\* fields; the others, and the order, stay.
C9_UpdateSetsMatchingOnly ==
    [][(last'.op = "update" /\ last'.ok /\ last'.upd.hasSet /\ ~last'.upd.hasUnset) =>
          LET before == DocsOf(files, last'.name)
              after == DocsOf(files', last'.name)
              set == last'.upd.set
              hits == MatchingIndices(before, last'.query, php8)
          IN /\ last'.rcount = Cardinality(hits)
             /\ Len(after) = Len(before)
             /\ \A i \in 1..Len(before) :
                   IF i \in hits
                   THEN /\ DOMAIN after[i] = DOMAIN before[i] \cup SetKeys(set)
                        /\ \A j \in 1..Len(set) :
                              EncodeVal(after[i][set[j].k]) = EncodeVal(set[j].v)
                        /\ \A k \in DOMAIN before[i] \ SetKeys(set) :
                              after[i][k] = before[i][k]
                   ELSE after[i] = before[i]]_vars

\* C9 witness: an update that set age on one document of three, a document
\* that has a name as well, and left a later one alone.
C9_Witness ==
    /\ last.op = "update" /\ last.ok /\ last.upd = SetAge1 /\ last.query = QNameX
    /\ last.rcount = 1
    /\ Len(DocsOf(files, last.name)) = 3
    /\ Match(DocsOf(files, last.name)[2], QNameX, php8)
    /\ FieldOf(DocsOf(files, last.name)[3], "age") = VInt(2)

IdsOf(data) == {FieldOf(data[i], "_id") : i \in 1..Len(data)}

\* C3: when two concurrent inserts on one collection have both returned and
\* both had read the same array, the collection holds that array plus one
\* document only, the one of the insert that wrote last.
C3_SameBaseKeepsOneDocument ==
    \A p, q \in Procs :
        (/\ p # q
         /\ procs[p].pc = "done" /\ procs[q].pc = "done"
         /\ Sanitize(procs[p].name) = Sanitize(procs[q].name)
         /\ procs[p].data = procs[q].data) =>
            LET base == procs[p].data
                now == DocsOf(files, procs[p].name)
            IN /\ Len(now) = Len(base) + 1
               /\ SubSeq(now, 1, Len(base)) = base
               /\ \/ SameDoc(now[Len(now)], procs[p].stored)
                  \/ SameDoc(now[Len(now)], procs[q].stored)

\* C3 witness: both inserts returned, each with its own generated _id, and
\* the document of request 1 is not in the collection.
C3_Witness ==
    /\ procs[1].pc = "done" /\ procs[2].pc = "done"
    /\ Sanitize(procs[1].name) = Sanitize(procs[2].name)
    /\ procs[1].data = procs[2].data
    /\ ~IsSet(procs[1].doc, "_id") /\ ~IsSet(procs[2].doc, "_id")
    /\ procs[1].stored["_id"] \notin IdsOf(DocsOf(files, procs[1].name))
    /\ procs[2].stored["_id"] \in IdsOf(DocsOf(files, procs[1].name))

\* C11 (as claimed): whenever create, insert, update, delete or drop ends with
\* an error (an invalid name, or a failed write or removal), every file is
\* exactly what it was before the call.
C11_ErrorLeavesFilesAsTheyWere ==
    [][(last'.op \in {"create", "insert", "update", "delete", "drop"} /\ ~last'.ok) =>
          files' = files]_vars

\* the sanitised form of a requested name as the contract words it: its ASCII
\* letters, digits and underscores, in order
WordForm(name) ==
    SelectSeq(name, LAMBDA c : c \in Lower \cup Upper \cup Digits \cup {"_"})

\* the files there are
Existing(fs) == {f \in DOMAIN fs : fs[f].exists}

\* C13: create of a name whose sanitised form is empty ends with an error and
\* leaves every file, and so the set of files, as it was.
C13_CreateRejectsEmptySanitizedName ==
    [][(last'.op = "create" /\ WordForm(last'.name) = <<>>) =>
          (~last'.ok /\ files' = files /\ Existing(files') = Existing(files))]_vars

\* C13 witness: create('-') was refused while another collection exists.
C13_Witness ==
    /\ last.op = "create" /\ last.name = <<"-">> /\ ~last.ok
    /\ Existing(files) # {}

\* C14 (as claimed): after an update that returned, every document the
\* collection held is still there, at its place, with the _id it had.
C14_UpdateKeepsIds ==
    [][(last'.op = "update" /\ last'.ok) =>
          LET before == DocsOf(files, last'.name)
              after == DocsOf(files', last'.name)
          IN /\ Len(after) = Len(before)
             /\ \A i \in 1..Len(before) :
                   FieldOf(after[i], "_id") = FieldOf(before[i], "_id")]_vars

\* C16: the response of list has no name twice and holds exactly the names
\* of the files there are; and the names listed change only so: a create or
\* an insert that wrote to the file of its name adds that name's sanitised
\* form, a drop that returned removes it, and nothing else changes them.
C16_ListIsTheExistingCollections ==
    [][LET n == WordForm(last'.name)
           wrote == /\ last'.op \in {"create", "insert"}
                    /\ n # <<>> /\ n # <<"0">>
                    /\ (last'.ok \/ last'.io = "partial")
           added == IF wrote THEN {n} ELSE {}
           removed == IF last'.op = "drop" /\ last'.ok THEN {n} ELSE {}
           listed == ListCollections(files')
       IN /\ listed = (Existing(files) \cup added) \ removed
          /\ listed = Existing(files')
          /\ last'.op = "list" =>
                /\ \A i, j \in 1..Len(last'.rnames) :
                      i # j => last'.rnames[i] # last'.rnames[j]
                /\ {last'.rnames[i] : i \in 1..Len(last'.rnames)} = Existing(files')]_vars

\* C16 witness: list answered with two names, after a collection was made by
\* an insert.
C16_Witness ==
    /\ last.op = "list" /\ Len(last.rnames) = 2
    /\ DocsOf(files, <<"u">>) # <<>>

\* C17: after an insert that returned, find under any other name with the
\* same sanitised form returns the inserted document; after a drop that
\* returned true, the collection is gone under every such name.
C17_SameSanitizedNameSameCollection ==
    [][(last'.op \in {"insert", "drop"} /\ last'.ok) =>
          \A m \in Names :
             (m # last'.name /\ WordForm(m) = WordForm(last'.name)) =>
                IF last'.op = "insert"
                THEN LET found == Find(files', m, QField("_id", FieldOf(last'.rdoc, "_id")), php8)
                     IN /\ found.ok
                        /\ \E i \in 1..Len(found.docs) : SameDoc(found.docs[i], last'.rdoc)
                ELSE last'.rflag =>
                        /\ WordForm(m) \notin ListCollections(files')
                        /\ Find(files', m, <<>>, php8).ok
                        /\ Find(files', m, <<>>, php8).docs = <<>>
                        /\ ~Drop(files', m, "ok").flag]_vars

\* C17 witness: an insert under "u-" returned and the collection "u" holds
\* that document after an earlier one.
C17_Witness ==
    /\ last.op = "insert" /\ last.ok /\ last.name = <<"u", "-">>
    /\ Len(DocsOf(files, <<"u">>)) >= 2
    /\ SameDoc(DocsOf(files, <<"u">>)[Len(DocsOf(files, <<"u">>))], last.rdoc)

\* whether the file of a name holds a JSON array that can be read
HoldsJsonArray(fs, name) ==
    /\ fs[Sanitize(name)].exists
    /\ fs[Sanitize(name)].json.kind = "list"

\* C12 (as claimed): a find on a collection whose file is missing, cannot be
\* read, or holds anything but a JSON array (text that is not JSON, a scalar,
\* a JSON object) returns, and what it returns is the empty sequence.
C12_FindOnNonArrayIsEmpty ==
    (last.op = "find" /\ ~HoldsJsonArray(files, last.name)) =>
        (last.ok /\ last.rdocs = <<>>)

\* the JSON documents a file holds, as persisted
Persisted(fs, name) == fs[Sanitize(name)].json.items

\* the indices of the persisted documents that satisfy query
PersistedHits(fs, name, query, p8) ==
    {i \in 1..Len(Persisted(fs, name)) : Match(DecodeDoc(Persisted(fs, name)[i]), query, p8)}

\* C15: whatever wrote the JSON array a collection's file holds, a call is
\* computed from that array: find returns its matching documents in order,
\* insert leaves it plus the new document, update and delete count its
\* matching documents, and delete leaves the others.
C15_CallsReadPersistedState ==
    [][(last'.op \in {"find", "insert", "update", "delete"} /\ last'.ok
          /\ HoldsJsonArray(files, last'.name)) =>
          LET items == Persisted(files, last'.name)
              hits == PersistedHits(files, last'.name, last'.query, php8)
              left == Persisted(files', last'.name)
          IN CASE last'.op = "find" ->
                    /\ Len(last'.rdocs) = Cardinality(hits)
                    /\ \A k \in 1..Len(last'.rdocs) :
                          EncodeDoc(last'.rdocs[k]) = items[KthOf(hits, k)]
               [] last'.op = "insert" ->
                    left = Append(items, EncodeDoc(last'.rdoc))
               [] last'.op = "update" ->
                    /\ last'.rcount = Cardinality(hits)
                    /\ Len(left) = Len(items)
                    /\ \A i \in (1..Len(items)) \ hits : left[i] = items[i]
               [] OTHER ->
                    /\ last'.rcount = Cardinality(hits)
                    /\ Len(left) = Len(items) - Cardinality(hits)
                    /\ \A k \in 1..Len(left) :
                          left[k] = items[KthOf((1..Len(items)) \ hits, k)]]_vars

\* C15 witness: an insert returned and the file holds the document the other
\* writer had put there followed by the inserted one.
C15_Witness ==
    /\ last.op = "insert" /\ last.ok
    /\ HoldsJsonArray(files, ExtName)
    /\ Persisted(files, ExtName) = <<EncodeDoc(DocExt), EncodeDoc(last.rdoc)>>

\* whether one field clause holds for a document: the literal is identical
\* to the field's value, or no operator of the mapping fails
ClauseHolds(doc, clause, p8) ==
    IF clause.crit.isOps
    THEN \A j \in 1..Len(clause.crit.ops) :
            ~ClauseFails(FieldOf(doc, clause.key), clause.crit.ops[j].op,
                         clause.crit.ops[j].arg, p8)
    ELSE Identical(FieldOf(doc, clause.key), clause.crit.v)

\* C18: match(), when it returns, answers true exactly when every field
\* clause of the query holds, a mapping holding when every one of its
\* operators does; so the empty query matches every document.
C18_MatchIsConjunction ==
    (last.op = "match" /\ last.ok) =>
        /\ last.rflag = (\A i \in 1..Len(last.query) : ClauseHolds(last.doc, last.query[i], php8))
        /\ last.query = <<>> => last.rflag

\* C18 witness: match() answered false for a query of two fields whose first
\* field holds and whose second field is a mapping of two operators, the
\* first holding and the second not.
C18_Witness ==
    /\ last.op = "match" /\ last.ok /\ ~last.rflag
    /\ Len(last.query) = 2
    /\ ClauseHolds(last.doc, last.query[1], php8)
    /\ last.query[2].crit.isOps /\ Len(last.query[2].crit.ops) = 2
    /\ ~ClauseFails(FieldOf(last.doc, last.query[2].key), last.query[2].crit.ops[1].op,
                    last.query[2].crit.ops[1].arg, php8)

\* whether the query has a $gt or $lt on a field the document does not have
ComparesAbsentField(doc, query) ==
    \E i \in 1..Len(query) :
        /\ ~IsSet(doc, query[i].key)
        /\ query[i].crit.isOps
        /\ \E j \in 1..Len(query[i].crit.ops) : query[i].crit.ops[j].op \in {"$gt", "$lt"}

\* C19 (as claimed): a document without the field fails every $gt and every
\* $lt on it, whatever the operand, so match() returns and answers false.
C19_AbsentFieldFailsGtAndLt ==
    (last.op = "match" /\ ComparesAbsentField(last.doc, last.query)) =>
        (last.ok /\ ~last.rflag)

\* whether the query is the single clause {key: {"$in": operand}}
IsInQuery(query) ==
    /\ Len(query) = 1
    /\ query[1].crit.isOps
    /\ Len(query[1].crit.ops) = 1
    /\ query[1].crit.ops[1].op = "$in"

\* C20 (as claimed): {key: {"$in": operand}} matches exactly when the operand
\* is a list and the field's value is identical, in type and value, to one
\* of its entries; match() returns in every case.
C20_InIsIdentityMembership ==
    (last.op = "match" /\ IsInQuery(last.query)) =>
        LET arg == last.query[1].crit.ops[1].arg
            value == FieldOf(last.doc, last.query[1].key)
        IN /\ last.ok
           /\ last.rflag = (arg.isList /\ \E i \in 1..Len(arg.items) : Identical(value, arg.items[i]))

\* whether the query is the single clause {key: {"$regex": pattern}} with a
\* pattern of letters only
IsPlainRegexQuery(query) ==
    /\ Len(query) = 1
    /\ query[1].crit.isOps
    /\ Len(query[1].crit.ops) = 1
    /\ query[1].crit.ops[1].op = "$regex"
    /\ ~query[1].crit.ops[1].arg.isList
    /\ query[1].crit.ops[1].arg.v.t = "str"
    /\ query[1].crit.ops[1].arg.v.s # <<>>
    /\ \A k \in 1..Len(query[1].crit.ops[1].arg.v.s) :
          query[1].crit.ops[1].arg.v.s[k] \in Lower \cup Upper

\* C22 (as claimed): {key: {"$regex": pattern}} with a plain pattern matches
\* exactly the documents whose field, as a string, contains the pattern when
\* the case of letters is ignored; so "EXAMPLE" matches "john@example.com".
C22_PlainRegexIgnoresCase ==
    (last.op = "match" /\ IsPlainRegexQuery(last.query)) =>
        /\ last.ok
        /\ last.rflag =
              Contains(StrLower(ToStr(FieldOf(last.doc, last.query[1].key))),
                       StrLower(last.query[1].crit.ops[1].arg.v.s))

\* the operator keys match() knows
KnownOps == {"$eq", "$ne", "$gt", "$lt", "$regex", "$in"}

\* the query without the operator keys match() does not know
StripUnknown(query) ==
    [i \in 1..Len(query) |->
        IF query[i].crit.isOps
        THEN Clause(query[i].key,
                    Ops(SelectSeq(query[i].crit.ops, LAMBDA o : o.op \in KnownOps)))
        ELSE query[i]]

\* C23 (as claimed): match() answers a query as it answers the query without
\* its unknown operator keys, and throws on one exactly when it throws on the
\* other.
C23_UnknownOperatorIgnored ==
    (last.op = "match" /\ StripUnknown(last.query) # last.query) =>
        /\ last.ok = ~MatchThrows(last.doc, StripUnknown(last.query), php8)
        /\ last.ok => last.rflag = Match(last.doc, StripUnknown(last.query), php8)

\* C24: a successful delete leaves exactly the documents that do not match
\* the query, in the order they had, and returns the number of documents that
\* match, which is the size before minus the size after.
C24_DeletePartitionsByMatch ==
    [][(last'.op = "delete" /\ last'.ok) =>
          LET before == DocsOf(files, last'.name)
              after == DocsOf(files', last'.name)
              hits == MatchingIndices(before, last'.query, php8)
              rest == (1..Len(before)) \ hits
          IN /\ last'.rcount = Cardinality(hits)
             /\ last'.rcount = Len(before) - Len(after)
             /\ Len(after) = Cardinality(rest)
             /\ \A k \in 1..Len(after) : after[k] = before[KthOf(rest, k)]]_vars

\* C24 witness: a delete by {name: "x"} removed two documents and left one,
\* which does not match.
C24_Witness ==
    /\ last.op = "delete" /\ last.ok /\ last.query = QNameX
    /\ last.rcount = 2
    /\ Len(DocsOf(files, last.name)) = 1
    /\ ~Match(DocsOf(files, last.name)[1], QNameX, php8)

\* whether the query has a $regex clause, every $regex operand is a string
\* and one of them is a malformed pattern
HasMalformedRegex(query) ==
    LET args == {query[i].crit.ops[j].arg :
                    <<i, j>> \in {<<h, k>> \in (1..Len(query)) \X (1..2) :
                                    /\ query[h].crit.isOps
                                    /\ k <= Len(query[h].crit.ops)
                                    /\ query[h].crit.ops[k].op = "$regex"}}
    IN /\ \A a \in args : ~a.isList /\ a.v.t = "str"
       /\ \E a \in args : a.v.s \in MalformedPatterns

\* C21: find, update and delete with a query that has a malformed $regex
\* pattern return normally, with no document matching: find returns the
\* empty list, update and delete return 0, and no file changes.
C21_MalformedRegexMatchesNothing ==
    [][(last'.op \in {"find", "update", "delete"} /\ HasMalformedRegex(last'.query)) =>
          /\ last'.ok
          /\ last'.rdocs = <<>>
          /\ last'.rcount = 0
          /\ files' = files]_vars

\* C21 witness: a find whose only clause is a malformed $regex on name
\* returned the empty list from a collection that holds a document with a
\* name.
C21_Witness ==
    /\ last.op = "find" /\ last.ok /\ last.rdocs = <<>>
    /\ Len(last.query) = 1
    /\ HasMalformedRegex(last.query)
    /\ \E i \in 1..Len(DocsOf(files, last.name)) : IsSet(DocsOf(files, last.name)[i], "name")

\* C25: a find, and an update or a delete whose query matches no document of
\* the collection, existing or not, leave every file as it was: no collection
\* appears, disappears or changes.
C25_NothingSelectedNothingWritten ==
    [][(\/ last'.op = "find"
        \/ /\ last'.op \in {"update", "delete"}
           /\ GetFilePath(last'.name).ok
           /\ MatchingIndices(DocsOf(files, last'.name), last'.query, php8) = {}) =>
          files' = files]_vars

\* C25 witness: an update of a collection that does not exist returned 0 and
\* the collection still does not exist.
C25_Witness ==
    /\ last.op = "update" /\ last.ok /\ last.rcount = 0
    /\ ~Exists(files, last.name)
    /\ \E f \in FileNames : files[f].exists

\* C26: a drop that returns true leaves a collection that does not exist and
\* reads as empty.  A collection that reads as empty reads as empty after
\* every call except a successful insert on it, so until the next insert;
\* after that insert it holds the returned document alone, which has the
\* fields of D; and a create of a collection that does not exist leaves one
\* that exists and, by the above, is empty.
C26_DroppedDocumentsStayGone ==
    [][/\ (last'.op = "drop" /\ last'.ok /\ last'.rflag) =>
             /\ ~Exists(files', last'.name)
             /\ DocsOf(files', last'.name) = <<>>
       /\ (last'.op = "create" /\ last'.ok /\ ~Exists(files, last'.name)) =>
             Exists(files', last'.name)
       /\ \A f \in FileNames :
             ReadFile(files, f) = <<>> =>
                IF last'.op = "insert" /\ last'.ok /\ WordForm(last'.name) = f
                THEN /\ Len(ReadFile(files', f)) = 1
                     /\ SameDoc(ReadFile(files', f)[1], last'.rdoc)
                     /\ \A k \in DOMAIN last'.doc : last'.rdoc[k] = last'.doc[k]
                ELSE ReadFile(files', f) = <<>>]_vars

\* C26 witness: a drop returned true after a document had been stored, and
\* now no collection exists and the dropped one reads as empty.
C26_Witness ==
    /\ last.op = "drop" /\ last.ok /\ last.rflag
    /\ clock > 1
    /\ Existing(files) = {}
    /\ DocsOf(files, last.name) = <<>>

\* C27: a create, insert, find, update, delete or drop addressed to one name
\* leaves the file of every collection with another sanitised name as it
\* was, so its existence and its documents.
C27_OtherCollectionsUntouched ==
    [][last'.op \in {"create", "insert", "find", "update", "delete", "drop"} =>
          \A f \in FileNames : f # WordForm(last'.name) => files'[f] = files[f]]_vars

\* C27 witness: a drop of "v" returned true while "u" holds two documents.
C27_Witness ==
    /\ last.op = "drop" /\ last.ok /\ last.rflag /\ last.name = <<"v">>
    /\ Len(DocsOf(files, <<"u">>)) = 2

\* C29 (as claimed): a DbSimulator constructed from the localStorage the
\* previous instance left has the state that instance had: the same
\* collections with the same documents.
C29_ConstructedStateIsSavedState ==
    [][simOut'.op = "construct" => state' = state]_vars

\* documents without their _id
WithoutIds(docs) == [i \in 1..Len(docs) |-> UnsetField(docs[i], "_id")]

\* C28 (as claimed, and only for a collection the simulator did not seed):
\* when both engines have answered the same call, both returned, a find gave
\* the same documents in the same order but for their _id, and a delete gave
\* the same count.
C28_SimulatorAgreesWithEngine ==
    (last # NoCall /\ simOut # NoSimOut /\ last.name # Users) =>
        /\ simOut.ok = last.ok
        /\ last.op = "find" => WithoutIds(simOut.docs) = WithoutIds(last.rdocs)
        /\ last.op = "delete" => simOut.count = last.rcount

\* C30 (as claimed): when no getCollectionDocs request is on its way and a
\* collection is selected, collectionDocs is the documents of that
\* collection.
C30_ShownDocsAreOfSelectedCollection ==
    (pending = <<>> /\ ~selectedCollection.isNull) =>
        collectionDocs = DocsOf(files, selectedCollection.name)

====
